---- MODULE Spec2Model ----
(***************************************************************************)
(* odarcon: the RCON message protocol (src/src/protocol.rs) and the        *)
(* transport session (src/src/socket.rs).                                  *)
(*                                                                         *)
(* Representation.  A string is a sequence of text chunks: a chunk is one  *)
(* character where the code looks at characters (version strings, the      *)
(* characters JSON escapes) and a run of ordinary characters elsewhere.    *)
(* A JSON text is either not JSON at all or the JSON value it denotes, an  *)
(* object being the ordered list of its key/value pairs as they stand in   *)
(* the text (duplicates kept).                                             *)
(***************************************************************************)
EXTENDS Integers, Sequences, FiniteSets, TLC

VARIABLES
    handle,     \* the RCONSocket value held by the caller: none/live/dropped/rejected
    cpc,        \* the connection task spawned by connect (also the reader loop)
    wpc,        \* the writer task
    cur,        \* the message the writer has received and is transmitting
    queue,      \* the unbounded mpsc channel: serialized messages not yet received
    rxOpen,     \* the receiving half of the channel still exists
    hand,       \* per caller: the ClientMessage constructed and not yet sent
    nextId,     \* Message::new's static NEXT_ID
    inbound,    \* frames that arrived on the connection and were not yet read
    arrived,    \* history: every frame that arrived, in arrival order
    nread,      \* history: how many arrived frames the reader loop has taken
    log,        \* history: the on_log invocations, in order
    wire,       \* history: the frames the writer handed to the connection
    enq,        \* history: the serialized messages accepted by the channel
    pin,        \* protocol specifications: the input drawn
    pout,       \* protocol specifications: the result of the operation applied
    ppc,        \* protocol specifications: the operation applied
    siv,        \* the interface: the Cursive root with its layers and its user data
    opened      \* history: the sessions opened, each with the endpoint asked for

sessionVars == <<handle, cpc, wpc, cur, queue, rxOpen, hand, nextId,
                 inbound, arrived, nread, log, wire, enq>>
protoVars == <<pin, pout, ppc>>
appVars == <<siv, opened>>
vars == <<handle, cpc, wpc, cur, queue, rxOpen, hand, nextId,
          inbound, arrived, nread, log, wire, enq, pin, pout, ppc, siv, opened>>

(***************************************************************************)
(* Bounds of the model.                                                    *)
(***************************************************************************)
MaxSegLen == 3      \* longest free segment of a version string
MaxPairs == 3       \* most key/value pairs of a generated JSON object
MaxSegs == 4        \* most segments of a version string
MaxInputs == 3      \* most messages constructed plus frames arrived in a session run
MaxServers == 2     \* most server entries of a configuration
MaxColors == 2      \* most log colours of a configuration document
MaxSessions == 2    \* most sessions opened in a run of the interface

U8Max == 255
U16Max == 65535
DefaultPort == 10666

(***************************************************************************)
(* JSON values.                                                            *)
(***************************************************************************)
JNull == [t |-> "null", n |-> 0, s |-> <<>>, kv |-> <<>>]
JNum(i) == [t |-> "num", n |-> i, s |-> <<>>, kv |-> <<>>]
JFloat == [t |-> "float", n |-> 0, s |-> <<>>, kv |-> <<>>]
JStr(str) == [t |-> "str", n |-> 0, s |-> str, kv |-> <<>>]
JArr(items) == [t |-> "arr", n |-> 0, s |-> <<>>, kv |-> items]
JObj(pairs) == [t |-> "obj", n |-> 0, s |-> <<>>, kv |-> pairs]
Pair(key, val) == [k |-> key, v |-> val]

JsonText(val) == [wf |-> TRUE, val |-> val]
NotJson == [wf |-> FALSE, val |-> JNull]

(***************************************************************************)
(* The message types.                                                      *)
(***************************************************************************)
PrintLevel ==
    <<"Pickup", "Obituary", "High", "Chat", "TeamChat", "ServerChat", "Warning", "Error">>

\* #[serde(rename_all = "lowercase")] on PrintLevel
Lowercase(name) ==
    CASE name = "Pickup" -> "pickup"
      [] name = "Obituary" -> "obituary"
      [] name = "High" -> "high"
      [] name = "Chat" -> "chat"
      [] name = "TeamChat" -> "teamchat"
      [] name = "ServerChat" -> "serverchat"
      [] name = "Warning" -> "warning"
      [] name = "Error" -> "error"

ServerMessageType == <<"LoginResponse", "LoginFailure", "LoginSuccess", "Print", "Maplist">>
ClientMessageType == <<"LoginRequest", "LoginPassword", "Command", "Maplist">>

MessageContent(dir) == IF dir = "server" THEN ServerMessageType ELSE ClientMessageType

\* the mutant: the derive without rename_all, the tag being the variant's own name
VariantName(name) == name

\* #[serde(rename_all = "snake_case")] on both content enums
SnakeCase(name) ==
    CASE name = "LoginResponse" -> "login_response"
      [] name = "LoginFailure" -> "login_failure"
      [] name = "LoginSuccess" -> "login_success"
      [] name = "Print" -> "print"
      [] name = "Maplist" -> "maplist"
      [] name = "LoginRequest" -> "login_request"
      [] name = "LoginPassword" -> "login_password"
      [] name = "Command" -> "command"

\* the shape of a variant's payload as the enums declare it
Style(variant) ==
    CASE variant \in {"LoginSuccess", "Maplist"} -> "unit"
      [] variant = "LoginResponse" -> "u64"
      [] variant \in {"LoginFailure", "LoginPassword", "Command"} -> "string"
      [] variant = "LoginRequest" -> "version"
      [] variant = "Print" -> "struct"

\* a content value: one record shape for every variant, unused fields at their default
Content(variant, num, str, level, ver) ==
    [variant |-> variant, num |-> num, str |-> str, printlevel |-> level, ver |-> ver]
NoVer == <<0, 0, 0>>
Unit(variant) == Content(variant, 0, <<>>, "", NoVer)
LoginResponse(u) == Content("LoginResponse", u, <<>>, "", NoVer)
LoginFailure(str) == Content("LoginFailure", 0, str, "", NoVer)
PrintContent(level, text) == Content("Print", 0, text, level, NoVer)
LoginRequest(ver) == Content("LoginRequest", 0, <<>>, "", ver)
LoginPassword(str) == Content("LoginPassword", 0, str, "", NoVer)
Command(str) == Content("Command", 0, str, "", NoVer)

Message(content, id) == [content |-> content, id |-> id]

Ok(value) == [ok |-> TRUE, err |-> "", value |-> value]
Err(why, dflt) == [ok |-> FALSE, err |-> why, value |-> dflt]
NoMessage == Message(Unit("Maplist"), 0)

(***************************************************************************)
(* ProtocolVersion: "major.minor.revision".                                *)
(***************************************************************************)
Digit == <<"0", "1", "2", "3", "4", "5", "6", "7", "8", "9">>
DigitSet == {Digit[i] : i \in 1..10}
DigitVal(c) == (CHOOSE i \in 1..10 : Digit[i] = c) - 1

\* Display of an unsigned integer: its decimal digits, no sign, no leading zero
RECURSIVE FormatUnsigned(_)
FormatUnsigned(n) ==
    IF n < 10 THEN <<Digit[n + 1]>>
    ELSE FormatUnsigned(n \div 10) \o <<Digit[(n % 10) + 1]>>

\* format!("{}.{}.{}", major, minor, revision)
FormatVersion(ver) ==
    FormatUnsigned(ver[1]) \o <<".">> \o FormatUnsigned(ver[2]) \o <<".">>
        \o FormatUnsigned(ver[3])

\* s.split('.').collect(): the segments between the dots, empty ones kept
RECURSIVE SplitFrom(_, _, _, _)
SplitFrom(s, i, seg, parts) ==
    IF i > Len(s) THEN Append(parts, seg)
    ELSE IF s[i] = "." THEN SplitFrom(s, i + 1, <<>>, Append(parts, seg))
    ELSE SplitFrom(s, i + 1, Append(seg, s[i]), parts)
Split(s) == SplitFrom(s, 1, <<>>, <<>>)

\* str::parse::<u8>: the digit loop, with checked multiplication and addition
RECURSIVE ParseDigits(_, _, _)
ParseDigits(digits, i, result) ==
    IF i > Len(digits) THEN Ok(result)
    ELSE IF digits[i] \notin DigitSet THEN Err("InvalidDigit", 0)
    ELSE IF result * 10 > U8Max THEN Err("PosOverflow", 0)
    ELSE IF result * 10 + DigitVal(digits[i]) > U8Max THEN Err("PosOverflow", 0)
    ELSE ParseDigits(digits, i + 1, result * 10 + DigitVal(digits[i]))

\* the mutant: a parse that wraps around instead of reporting the overflow
RECURSIVE ParseDigitsWrapping(_, _, _)
ParseDigitsWrapping(digits, i, result) ==
    IF i > Len(digits) THEN Ok(result)
    ELSE IF digits[i] \notin DigitSet THEN Err("InvalidDigit", 0)
    ELSE ParseDigitsWrapping(digits, i + 1,
                             (result * 10 + DigitVal(digits[i])) % (U8Max + 1))
ParseU8Wrapping(src) ==
    IF src = <<>> THEN Err("Empty", 0)
    ELSE IF Len(src) = 1 /\ src[1] \in {"+", "-"} THEN Err("InvalidDigit", 0)
    ELSE ParseDigitsWrapping(IF src[1] = "+" THEN Tail(src) ELSE src, 1, 0)

\* str::parse::<u8>: empty is an error, a lone sign is an error, a leading '+' is
\* dropped, and a '-' is left to the digit loop (u8 is unsigned), which rejects it
ParseU8(src) ==
    IF src = <<>> THEN Err("Empty", 0)
    ELSE IF Len(src) = 1 /\ src[1] \in {"+", "-"} THEN Err("InvalidDigit", 0)
    ELSE ParseDigits(IF src[1] = "+" THEN Tail(src) ELSE src, 1, 0)

\* impl Deserialize for ProtocolVersion, from the string it was given
DecodeVersion(s) ==
    LET parts == Split(s) IN
    IF Len(parts) # 3 THEN Err("Expected format 'major.minor.revision'", NoVer)
    ELSE LET major == ParseU8(parts[1])
             minor == ParseU8(parts[2])
             revision == ParseU8(parts[3])
         IN  IF ~major.ok THEN Err("Invalid major version", NoVer)
             ELSE IF ~minor.ok THEN Err("Invalid minor version", NoVer)
             ELSE IF ~revision.ok THEN Err("Invalid revision version", NoVer)
             ELSE Ok(<<major.value, minor.value, revision.value>>)

(***************************************************************************)
(* Serialization: #[derive(Serialize)] on Message (content flattened, then *)
(* id) and on the adjacently tagged content enums (type, then content      *)
(* unless the variant has no payload).                                     *)
(***************************************************************************)
PayloadJson(c) ==
    CASE Style(c.variant) = "u64" -> JNum(c.num)
      [] Style(c.variant) = "string" -> JStr(c.str)
      [] Style(c.variant) = "version" -> JStr(FormatVersion(c.ver))
      [] Style(c.variant) = "struct" ->
            JObj(<<Pair("printlevel", JStr(<<Lowercase(c.printlevel)>>)),
                   Pair("text", JStr(c.str))>>)
      [] OTHER -> JNull

SerializeContent(c) ==
    <<Pair("type", JStr(<<SnakeCase(c.variant)>>))>>
        \o (IF Style(c.variant) = "unit" THEN <<>> ELSE <<Pair("content", PayloadJson(c))>>)

\* Message::serialize: serde_json::to_string(&self).unwrap()
Serialize(m) == JsonText(JObj(SerializeContent(m.content) \o <<Pair("id", JNum(m.id))>>))

(***************************************************************************)
(* Deserialization: #[derive(Deserialize)].                                *)
(***************************************************************************)
\* id: usize
DeserializeUsize(v) ==
    IF v.t = "num" /\ v.n >= 0 THEN Ok(v.n) ELSE Err("invalid type: expected usize", 0)

\* printlevel: PrintLevel, a unit variant named by its lowercase string
DeserializePrintLevel(v) ==
    IF v.t = "str" /\ Len(v.s) = 1
          /\ \E i \in 1..Len(PrintLevel) : Lowercase(PrintLevel[i]) = v.s[1]
    THEN Ok(PrintLevel[CHOOSE i \in 1..Len(PrintLevel) : Lowercase(PrintLevel[i]) = v.s[1]])
    ELSE Err("unknown variant", "")

\* the map visitor of the struct variant Print { printlevel, text }
RECURSIVE PrintFields(_, _, _, _)
PrintFields(kv, i, level, text) ==
    IF i > Len(kv) THEN
        IF ~level.some THEN Err("missing field printlevel", Unit("Print"))
        ELSE IF ~text.some THEN Err("missing field text", Unit("Print"))
        ELSE Ok(PrintContent(level.val, text.val))
    ELSE IF kv[i].k = "printlevel" THEN
        IF level.some THEN Err("duplicate field printlevel", Unit("Print"))
        ELSE IF ~DeserializePrintLevel(kv[i].v).ok
             THEN Err(DeserializePrintLevel(kv[i].v).err, Unit("Print"))
        ELSE PrintFields(kv, i + 1,
                         [some |-> TRUE, val |-> DeserializePrintLevel(kv[i].v).value], text)
    ELSE IF kv[i].k = "text" THEN
        IF text.some THEN Err("duplicate field text", Unit("Print"))
        ELSE IF kv[i].v.t # "str" THEN Err("invalid type: expected a string", Unit("Print"))
        ELSE PrintFields(kv, i + 1, level, [some |-> TRUE, val |-> kv[i].v.s])
    ELSE PrintFields(kv, i + 1, level, text)

\* the payload of the variant the tag named
DeserializePayload(variant, v) ==
    CASE Style(variant) = "unit" ->
            IF v.t = "null" THEN Ok(Unit(variant))
            ELSE Err("invalid type: expected unit variant", Unit(variant))
      [] Style(variant) = "u64" ->
            IF v.t = "num" /\ v.n >= 0 THEN Ok(LoginResponse(v.n))
            ELSE Err("invalid type: expected u64", Unit(variant))
      [] Style(variant) = "string" ->
            IF v.t = "str" THEN Ok(Content(variant, 0, v.s, "", NoVer))
            ELSE Err("invalid type: expected a string", Unit(variant))
      [] Style(variant) = "version" ->
            IF v.t # "str" THEN Err("invalid type: expected a string", Unit(variant))
            ELSE IF ~DecodeVersion(v.s).ok THEN Err(DecodeVersion(v.s).err, Unit(variant))
            ELSE Ok(LoginRequest(DecodeVersion(v.s).value))
      [] Style(variant) = "struct" ->
            IF v.t = "obj" THEN PrintFields(v.kv, 1, [some |-> FALSE, val |-> ""],
                                            [some |-> FALSE, val |-> <<>>])
            ELSE Err("invalid type: expected struct variant", Unit(variant))

\* the mutant: a variant with no "content" key is refused whatever its shape
MissingContentStrict(variant) == Err("missing field content", Unit(variant))

\* a variant with no "content" key at all
MissingContent(variant) ==
    IF Style(variant) = "unit" THEN Ok(Unit(variant))
    ELSE Err("missing field content", Unit(variant))

\* the variant a "type" value names, among the variants of the direction parsed
DeserializeVariant(dir, v) ==
    IF v.t = "str" /\ Len(v.s) = 1
          /\ \E i \in 1..Len(MessageContent(dir)) : SnakeCase(MessageContent(dir)[i]) = v.s[1]
    THEN Ok(MessageContent(dir)[CHOOSE i \in 1..Len(MessageContent(dir)) :
                                    SnakeCase(MessageContent(dir)[i]) = v.s[1]])
    ELSE Err("unknown variant", "")

\* the mutant: a visitor that wants the tag before the content and buffers nothing
DeserializeAdjacentTagFirst(dir, rel) ==
    IF rel = <<>> \/ rel[1].k # "type" THEN Err("missing field type", Unit("Maplist"))
    ELSE IF ~DeserializeVariant(dir, rel[1].v).ok THEN Err("unknown variant", Unit("Maplist"))
    ELSE LET variant == DeserializeVariant(dir, rel[1].v).value IN
         IF Len(rel) = 1 THEN MissingContent(variant)
         ELSE IF rel[2].k = "type" THEN Err("duplicate field type", Unit("Maplist"))
         ELSE IF ~DeserializePayload(variant, rel[2].v).ok
              THEN DeserializePayload(variant, rel[2].v)
         ELSE IF Len(rel) > 2 THEN Err("duplicate field", Unit("Maplist"))
         ELSE DeserializePayload(variant, rel[2].v)

\* the visitor of an adjacently tagged enum over the "type" and "content" entries,
\* in the order they stand: tag first, or content first and buffered
DeserializeAdjacent(dir, rel) ==
    IF rel = <<>> THEN Err("missing field type", Unit("Maplist"))
    ELSE IF rel[1].k = "type" THEN
        IF ~DeserializeVariant(dir, rel[1].v).ok THEN Err("unknown variant", Unit("Maplist"))
        ELSE LET variant == DeserializeVariant(dir, rel[1].v).value IN
             IF Len(rel) = 1 THEN MissingContent(variant)
             ELSE IF rel[2].k = "type" THEN Err("duplicate field type", Unit("Maplist"))
             ELSE IF ~DeserializePayload(variant, rel[2].v).ok
                  THEN DeserializePayload(variant, rel[2].v)
             ELSE IF Len(rel) > 2
                  THEN Err("duplicate field", Unit("Maplist"))
             ELSE DeserializePayload(variant, rel[2].v)
    ELSE
        IF Len(rel) = 1 THEN Err("missing field type", Unit("Maplist"))
        ELSE IF rel[2].k = "content" THEN Err("duplicate field content", Unit("Maplist"))
        ELSE IF ~DeserializeVariant(dir, rel[2].v).ok THEN Err("unknown variant", Unit("Maplist"))
        ELSE LET variant == DeserializeVariant(dir, rel[2].v).value IN
             IF ~DeserializePayload(variant, rel[1].v).ok
             THEN DeserializePayload(variant, rel[1].v)
             ELSE IF Len(rel) > 2 THEN Err("duplicate field", Unit("Maplist"))
             ELSE DeserializePayload(variant, rel[1].v)

\* the mutant: a missing id defaults to 0, as #[serde(default)] on the field would
MissingIdDefault == Ok(0)

\* the struct visitor finds no "id" key
MissingId == Err("missing field id", 0)

\* the map visitor of Message: "id" is read as usize where it stands, every other
\* entry is collected for the flattened content, which is deserialized at the end
RECURSIVE MessageFields(_, _, _, _, _)
MessageFields(dir, kv, i, id, collect) ==
    IF i > Len(kv) THEN
        LET got == IF id.some THEN Ok(id.val) ELSE MissingId IN
        IF ~got.ok THEN Err(got.err, NoMessage)
        ELSE LET c == DeserializeAdjacent(dir,
                          SelectSeq(collect, LAMBDA p : p.k \in {"type", "content"}))
             IN  IF ~c.ok THEN Err(c.err, NoMessage)
                 ELSE Ok(Message(c.value, got.value))
    ELSE IF kv[i].k = "id" THEN
        IF id.some THEN Err("duplicate field id", NoMessage)
        ELSE IF ~DeserializeUsize(kv[i].v).ok THEN Err(DeserializeUsize(kv[i].v).err, NoMessage)
        ELSE MessageFields(dir, kv, i + 1,
                           [some |-> TRUE, val |-> DeserializeUsize(kv[i].v).value], collect)
    ELSE MessageFields(dir, kv, i + 1, id, Append(collect, kv[i]))

DeserializeMessage(dir, val) ==
    IF val.t # "obj" THEN Err("invalid type: expected a map", NoMessage)
    ELSE MessageFields(dir, val.kv, 1, [some |-> FALSE, val |-> 0], <<>>)

\* impl FromStr for Message: serde_json::from_str
FromStr(dir, text) ==
    IF ~text.wf THEN Err("syntax error", NoMessage)
    ELSE DeserializeMessage(dir, text.val)

\* a serde_json::Value keeps an object as a map sorted by key, one entry per key
KeyRank(key) ==
    CASE key = "content" -> 1
      [] key = "extra" -> 2
      [] key = "id" -> 3
      [] key = "printlevel" -> 4
      [] key = "text" -> 5
      [] key = "type" -> 6
LastOf(kv, key) == kv[CHOOSE i \in 1..Len(kv) :
                         kv[i].k = key /\ \A j \in (i + 1)..Len(kv) : kv[j].k # key]
RECURSIVE SortedPairs(_, _)
SortedPairs(kv, rank) ==
    IF rank > 6 THEN <<>>
    ELSE LET here == {i \in 1..Len(kv) : KeyRank(kv[i].k) = rank} IN
         (IF here = {} THEN <<>>
          ELSE <<LastOf(kv, kv[CHOOSE i \in here : TRUE].k)>>) \o SortedPairs(kv, rank + 1)
ToValue(val) ==
    IF val.t # "obj" THEN val
    ELSE JObj([i \in 1..Len(SortedPairs(val.kv, 1)) |->
                 LET p == SortedPairs(val.kv, 1)[i] IN
                 IF p.v.t = "obj" THEN Pair(p.k, JObj(SortedPairs(p.v.kv, 1))) ELSE p])

\* serde_json::from_value::<Message<T>>
FromValue(dir, value) == DeserializeMessage(dir, value)

(***************************************************************************)
(* The session before connect is called.                                   *)
(***************************************************************************)
Callers == {"ui", "bg"}
NoHand == [full |-> FALSE, msg |-> NoMessage]

SessionInit ==
    /\ handle = "none"
    /\ cpc = "none"
    /\ wpc = "none"
    /\ cur = <<>>
    /\ queue = <<>>
    /\ rxOpen = FALSE
    /\ hand = [c \in Callers |-> NoHand]
    /\ nextId = 0
    /\ inbound = <<>>
    /\ arrived = <<>>
    /\ nread = 0
    /\ log = <<>>
    /\ wire = <<>>
    /\ enq = <<>>

NoInput == [kind |-> "none"]
NoResult == [kind |-> "none"]

\* no interface was started and no session opened through it
NoSiv == [running |-> FALSE]
AppIdle == siv = NoSiv /\ opened = <<>>

(***************************************************************************)
(* SpecVersion: ProtocolVersion's decoder applied to version strings.  An  *)
(* input is built from its segments, joined by dots: one segment is any    *)
(* string of at most MaxSegLen characters, the others are fixed.           *)
(***************************************************************************)
VersionChars == {"0", "2", "5", "6", "+", "-", "a", " "}
FreeSegs == UNION {[1..n -> VersionChars] : n \in 0..MaxSegLen}
FixedSegs == {<<"0">>, <<"2", "5", "5">>}
SegList(n, p, free, fixed) == [i \in 1..n |-> IF i = p THEN free ELSE fixed[i]]

RECURSIVE Join(_)
Join(segs) ==
    IF Len(segs) = 1 THEN segs[1]
    ELSE segs[1] \o <<".">> \o Join(Tail(segs))

VersionInit ==
    /\ SessionInit
    /\ AppIdle
    /\ \E n \in 1..MaxSegs, free \in FreeSegs :
          \E p \in 1..n, fixed \in [1..n -> FixedSegs] :
              pin = [kind |-> "version", segs |-> SegList(n, p, free, fixed),
                     s |-> Join(SegList(n, p, free, fixed))]
    /\ pout = NoResult
    /\ ppc = "input"

Decode ==
    /\ ppc = "input"
    /\ pin.kind = "version"
    /\ pout' = DecodeVersion(pin.s)
    /\ ppc' = "decoded"
    /\ UNCHANGED <<pin, sessionVars, appVars>>

\* the decoded version formatted again
Encode ==
    /\ ppc = "decoded"
    /\ pout.ok
    /\ pout' = [ok |-> TRUE, err |-> "", value |-> pout.value, s |-> FormatVersion(pout.value)]
    /\ ppc' = "encoded"
    /\ UNCHANGED <<pin, sessionVars, appVars>>

VersionNext == Decode \/ Encode
SpecVersion == VersionInit /\ [][VersionNext]_vars

(***************************************************************************)
(* SpecProto: serialize and parse applied to messages and to JSON texts.   *)
(* A generated text is an object of at most MaxPairs key/value pairs drawn *)
(* from a palette of tags, ids, payloads and one unknown key, in any       *)
(* order, or a text that is not an object or not JSON.                     *)
(***************************************************************************)
Strings == {<<>>, <<"bad password">>, <<"bad ", "\"", "pw">>, <<"hi", "\n">>}
PrintGood == JObj(<<Pair("printlevel", JStr(<<"high">>)), Pair("text", JStr(<<"Hello">>))>>)
PrintNoText == JObj(<<Pair("printlevel", JStr(<<"high">>))>>)
PrintBadLevel == JObj(<<Pair("printlevel", JStr(<<"loud">>)), Pair("text", JStr(<<"Hello">>))>>)
PrintAsArray == JArr(<<JStr(<<"high">>), JStr(<<"Hello">>)>>)

TypePairs ==
    {Pair("type", JStr(<<tag>>)) :
        tag \in {"login_response", "login_failure", "login_success", "print",
                 "maplist", "login_request", "login_password", "command", "bogus"}}
IdPairs == {Pair("id", v) : v \in {JNum(2), JNum(-1), JFloat, JStr(<<"2">>)}}
ContentPairs ==
    {Pair("content", v) :
        v \in {JNull, JNum(7), JNum(-7), JFloat, JStr(<<"bad password">>),
               JStr(<<"1", ".", "0", ".", "0">>), PrintGood, PrintNoText, PrintBadLevel,
               PrintAsArray}}
Palette == TypePairs \cup IdPairs \cup ContentPairs \cup {Pair("extra", JNull)}

OtherTexts == {NotJson, JsonText(JArr(<<>>)), JsonText(JStr(<<"print">>)), JsonText(JNull)}

VersionValues == {0, 9, 10, 255}
ServerContents ==
    {LoginResponse(u) : u \in {0, 7}} \cup {LoginFailure(str) : str \in Strings}
        \cup {Unit("LoginSuccess"), Unit("Maplist")}
        \cup {PrintContent(PrintLevel[i], str) : i \in 1..Len(PrintLevel), str \in Strings}
ClientContents ==
    {LoginRequest(<<a, b, c>>) : a \in VersionValues, b \in VersionValues, c \in VersionValues}
        \cup {LoginPassword(str) : str \in Strings} \cup {Command(str) : str \in Strings}
        \cup {Unit("Maplist")}
Ids == {0, 5}

ProtoInit ==
    /\ SessionInit
    /\ AppIdle
    /\ \/ \E n \in 0..MaxPairs : \E kv \in [1..n -> Palette] :
              pin = [kind |-> "text", text |-> JsonText(JObj(kv))]
       \/ \E text \in OtherTexts : pin = [kind |-> "text", text |-> text]
       \/ \E c \in ServerContents, id \in Ids :
              pin = [kind |-> "message", dir |-> "server", msg |-> Message(c, id)]
       \/ \E c \in ClientContents, id \in Ids :
              pin = [kind |-> "message", dir |-> "client", msg |-> Message(c, id)]
    /\ pout = NoResult
    /\ ppc = "input"

\* text.parse::<ServerMessage>() and text.parse::<ClientMessage>()
Parse(dir) ==
    /\ ppc = "input"
    /\ pin.kind = "text"
    /\ pout' = [dir |-> dir, text |-> pin.text, res |-> FromStr(dir, pin.text)]
    /\ ppc' = "parsed"
    /\ UNCHANGED <<pin, sessionVars, appVars>>

\* serde_json::from_value of the Value the text denotes (the json! of the tests)
ParseValue(dir) ==
    /\ ppc = "input"
    /\ pin.kind = "text"
    /\ pin.text.wf
    /\ pout' = [dir |-> dir, text |-> pin.text,
                res |-> FromValue(dir, ToValue(pin.text.val))]
    /\ ppc' = "parsedValue"
    /\ UNCHANGED <<pin, sessionVars, appVars>>

SerializeStep ==
    /\ ppc = "input"
    /\ pin.kind = "message"
    /\ pout' = [dir |-> pin.dir, text |-> Serialize(pin.msg), res |-> Ok(NoMessage)]
    /\ ppc' = "serialized"
    /\ UNCHANGED <<pin, sessionVars, appVars>>

\* the serialized text parsed again, as the same message type
ParseBack ==
    /\ ppc = "serialized"
    /\ pout' = [pout EXCEPT !.res = FromStr(pout.dir, pout.text)]
    /\ ppc' = "roundtrip"
    /\ UNCHANGED <<pin, sessionVars, appVars>>

ProtoNext ==
    \/ \E dir \in {"server", "client"} : Parse(dir)
    \/ \E dir \in {"server", "client"} : ParseValue(dir)
    \/ SerializeStep
    \/ ParseBack
SpecProto == ProtoInit /\ [][ProtoNext]_vars

(***************************************************************************)
(* Display of a message: serde_json::to_string_pretty, two spaces of       *)
(* indent, strings quoted and escaped.                                     *)
(***************************************************************************)
\* the characters JSON does not allow bare inside a string
Escape(chunk) ==
    CASE chunk = "\"" -> "\\\""
      [] chunk = "\\" -> "\\\\"
      [] chunk = "\n" -> "\\n"
      [] OTHER -> chunk

JsonString(str) == <<"\"">> \o [i \in 1..Len(str) |-> Escape(str[i])] \o <<"\"">>

Indent(depth) == [i \in 1..depth |-> "  "]

RECURSIVE PrettyValue(_, _)
RECURSIVE PrettyPairs(_, _, _)
PrettyPairs(kv, i, depth) ==
    IF i > Len(kv) THEN <<>>
    ELSE Indent(depth) \o JsonString(<<kv[i].k>>) \o <<": ">> \o PrettyValue(kv[i].v, depth)
             \o (IF i < Len(kv) THEN <<",">> ELSE <<>>) \o <<"\n">>
             \o PrettyPairs(kv, i + 1, depth)
PrettyValue(v, depth) ==
    CASE v.t = "null" -> <<"null">>
      [] v.t = "num" -> IF v.n >= 0 THEN FormatUnsigned(v.n) ELSE <<"-">> \o FormatUnsigned(-v.n)
      [] v.t = "float" -> <<"0", ".", "5">>
      [] v.t = "str" -> JsonString(v.s)
      [] v.t = "arr" -> <<"[", "]">>
      [] v.t = "obj" ->
            IF v.kv = <<>> THEN <<"{", "}">>
            ELSE <<"{", "\n">> \o PrettyPairs(v.kv, 1, depth + 1) \o Indent(depth) \o <<"}">>

\* the mutant: a Display that names the variant and leaves the payload out
DisplayVariantOnly(m) == <<m.content.variant>>

\* impl Display for Message
Display(m) == PrettyValue(Serialize(m).val, 0)

\* the characters of a frame's text, as format!("{}", txt) copies them
FrameChars(text) == IF text.wf THEN PrettyValue(text.val, 0) ELSE <<"not json">>

(***************************************************************************)
(* The transport session: RCONSocket::connect, its connection task with    *)
(* the reader loop, the writer task, and RCONSocket::send.                 *)
(***************************************************************************)
Hosts == {<<"127.0.0.1">>, <<"example", " ", "com">>}

\* the mutant: a request built without parsing the URL, so that any host passes
IntoClientRequestUnchecked(host) == TRUE

\* url_str.into_client_request(): a host with a space in it is no URI
IntoClientRequestOk(host) == \A i \in 1..Len(host) : host[i] # " "

NoLevel == [some |-> FALSE, level |-> ""]
SomeLevel(l) == [some |-> TRUE, level |-> l]
\* one on_log invocation; src and frame tell who made it and for which inbound frame
OnLog(src, frame, text, level) == [src |-> src, frame |-> frame, text |-> text, level |-> level]

Connected == <<"Connected to odamex server!", "\n">>
ConnectionClosed == <<"Connection to server has been closed", "\n">>
SendFailed(why) == <<"Failed to send message: ", why>>

\* the frames a server can put on the connection
TextFrame(text) == [kind |-> "Text", text |-> text]
OtherFrame(kind) == [kind |-> kind, text |-> NotJson]
ServerFrame(content, id) == TextFrame(Serialize(Message(content, id)))
BogusFrame ==
    TextFrame(JsonText(JObj(<<Pair("type", JStr(<<"bogus">>)), Pair("id", JNum(2))>>)))
Frames ==
    {ServerFrame(PrintContent("High", <<"Hello", "\n">>), 2),
     ServerFrame(LoginFailure(<<"bad ", "\"", "pw", "\"">>), 2),
     ServerFrame(LoginResponse(70), 3),
     ServerFrame(Unit("LoginSuccess"), 4),
     BogusFrame, TextFrame(NotJson),
     OtherFrame("Binary"), OtherFrame("Close"), OtherFrame("Error"), OtherFrame("End")}

\* the contents a caller sends
Commands == {Command(<<"echo hello">>), Unit("Maplist")}

\* the mutant: the level is dropped, as a console that only prints text would
OnPrintNoLevel(frame, c) == <<OnLog("reader", frame, c.str, NoLevel)>>

\* ServerMessageType::Print { printlevel, text } => on_log(text, Some(printlevel))
OnPrint(frame, c) == <<OnLog("reader", frame, c.str, SomeLevel(c.printlevel))>>

\* _ => on_log(format!("Received: {}\n", message), None)
OnOther(frame, m) ==
    <<OnLog("reader", frame, <<"Received: ">> \o Display(m) \o <<"\n">>, NoLevel)>>

\* Err(e) => on_log(format!("Received invalid message: {}\n{}\n", txt, e), None)
OnInvalid(frame, text, e) ==
    <<OnLog("reader", frame,
            <<"Received invalid message: ">> \o FrameChars(text) \o <<"\n", e, "\n">>,
            NoLevel)>>

\* the mutant: a reader loop that gives up on a frame it cannot parse
AfterParseErrorStop == "done"

\* the reader loop after a frame it could not parse: the next iteration
AfterParseError == "reading"

\* the mutant: a reader loop that tells the caller of a binary frame
OnBinaryNoticed(frame) ==
    <<[src |-> "reader", frame |-> frame, text |-> <<"Received binary frame", "\n">>,
       level |-> [some |-> FALSE, level |-> ""]]>>

\* Ok(Message::Binary(_)) => {}
OnBinary(frame) == <<>>

\* Ok(Message::Close(_)) => { on_log("Connection to server has been closed\n", None); break; }
OnClose(frame) == <<OnLog("reader", frame, ConnectionClosed, NoLevel)>>

\* the mutant: the closure is logged and the loop goes on reading
AfterCloseContinue == "reading"

\* the mutant: the closure is answered by a new connection attempt
AfterCloseReconnect == "handshake"

\* the reader loop after a close frame: break, and the connection task ends
AfterClose == "done"

\* the on_log invocations the reader loop makes for one frame
Delivered(frame, f) ==
    CASE f.kind = "Text" ->
            LET r == FromStr("server", f.text) IN
            IF ~r.ok THEN OnInvalid(frame, f.text, r.err)
            ELSE IF r.value.content.variant = "Print" THEN OnPrint(frame, r.value.content)
            ELSE OnOther(frame, r.value)
      [] f.kind = "Binary" -> OnBinary(frame)
      [] f.kind = "Close" -> OnClose(frame)
      [] OTHER -> <<>>

\* where the reader loop stands after one frame
AfterFrame(f) ==
    CASE f.kind = "Close" -> AfterClose
      [] f.kind = "End" -> "done"
      [] f.kind = "Text" /\ ~FromStr("server", f.text).ok -> AfterParseError
      [] OTHER -> "reading"

\* the mutant: the channel hands out its newest message first
RecvNewest(q) == [msg |-> q[Len(q)], rest |-> SubSeq(q, 1, Len(q) - 1)]

\* rx.recv() on a channel that holds messages: the oldest one
Recv(q) == [msg |-> Head(q), rest |-> Tail(q)]

SessionState ==
    CASE cpc = "handshake" -> "Connecting"
      [] cpc = "reading" -> "Open"
      [] cpc = "done" -> "Closed"
      [] OTHER -> "None"

\* RCONSocket::connect: the request is built, and only then is anything spawned
Connect(host) ==
    /\ handle = "none"
    /\ IF IntoClientRequestOk(host)
       THEN /\ handle' = "live"
            /\ cpc' = "handshake"
            /\ rxOpen' = TRUE
       ELSE /\ handle' = "rejected"
            /\ UNCHANGED <<cpc, rxOpen>>
    /\ UNCHANGED <<wpc, cur, queue, hand, nextId, inbound, arrived, nread, log, wire, enq,
                   protoVars, appVars>>

\* the mutant: a connection task that says nothing when the handshake is over
HandshakeOkSilent ==
    /\ cpc = "handshake"
    /\ wpc' = "recv"
    /\ cpc' = "reading"
    /\ UNCHANGED <<handle, cur, queue, rxOpen, hand, nextId, inbound, arrived, nread, log,
                   wire, enq, protoVars, appVars>>

\* the mutant: a channel made only once the handshake is over, what was sent before lost
HandshakeOkFreshChannel ==
    /\ cpc = "handshake"
    /\ log' = Append(log, OnLog("connect", 0, Connected, NoLevel))
    /\ wpc' = "recv"
    /\ cpc' = "reading"
    /\ queue' = <<>>
    /\ UNCHANGED <<handle, cur, rxOpen, hand, nextId, inbound, arrived, nread, wire, enq,
                   protoVars, appVars>>

\* the mutant: a connection task that opens the session with a login of its own
HandshakeOkLogin ==
    /\ cpc = "handshake"
    /\ log' = Append(log, OnLog("connect", 0, Connected, NoLevel))
    /\ wpc' = "recv"
    /\ cpc' = "reading"
    /\ queue' = <<Serialize(Message(LoginPassword(<<"password">>), 0))>> \o queue
    /\ UNCHANGED <<handle, cur, rxOpen, hand, nextId, inbound, arrived, nread, wire, enq,
                   protoVars, appVars>>

\* connect_async succeeded: the notice, the writer task, the reader loop
HandshakeOk ==
    /\ cpc = "handshake"
    /\ log' = Append(log, OnLog("connect", 0, Connected, NoLevel))
    /\ wpc' = "recv"
    /\ cpc' = "reading"
    /\ UNCHANGED <<handle, cur, queue, rxOpen, hand, nextId, inbound, arrived, nread, wire,
                   enq, protoVars, appVars>>

\* the mutant: a connect that awaits the handshake and returns its error
HandshakeFailReturned ==
    /\ cpc = "handshake"
    /\ cpc' = "panicked"
    /\ handle' = "rejected"
    /\ rxOpen' = FALSE
    /\ queue' = <<>>
    /\ UNCHANGED <<wpc, cur, hand, nextId, inbound, arrived, nread, log, wire, enq,
                   protoVars, appVars>>

\* connect_async failed: expect panics, the task ends and drops the receiver
HandshakeFail ==
    /\ cpc = "handshake"
    /\ cpc' = "panicked"
    /\ rxOpen' = FALSE
    /\ queue' = <<>>
    /\ UNCHANGED <<handle, wpc, cur, hand, nextId, inbound, arrived, nread, log, wire, enq,
                   protoVars, appVars>>

\* the mutant: the counter read and written back apart, the increment of one lost
FetchAddLost(n) == [old |-> n, new |-> n]

\* NEXT_ID.fetch_add(1, Ordering::Relaxed): the value before, and the counter after
FetchAdd(n) == [old |-> n, new |-> n + 1]

\* Message::new: NEXT_ID.fetch_add(1)
NewMessage(caller, content) ==
    /\ ~hand[caller].full
    /\ nextId + Len(arrived) < MaxInputs
    /\ hand' = [hand EXCEPT ![caller] =
                    [full |-> TRUE, msg |-> Message(content, FetchAdd(nextId).old)]]
    /\ nextId' = FetchAdd(nextId).new
    /\ UNCHANGED <<handle, cpc, wpc, cur, queue, rxOpen, inbound, arrived, nread, log, wire,
                   enq, protoVars, appVars>>

\* the mutant: a send that makes the envelope itself, allocating an id of its own
SendFreshId(caller) ==
    /\ handle = "live"
    /\ hand[caller].full
    /\ hand' = [hand EXCEPT ![caller] = [full |-> FALSE, msg |-> NoMessage]]
    /\ nextId' = nextId + 1
    /\ IF rxOpen
       THEN /\ queue' = Append(queue, Serialize(Message(hand[caller].msg.content, nextId)))
            /\ enq' = Append(enq, Serialize(Message(hand[caller].msg.content, nextId)))
            /\ UNCHANGED log
       ELSE /\ log' = Append(log, OnLog("send", 0, SendFailed("channel closed"), NoLevel))
            /\ UNCHANGED <<queue, enq>>
    /\ UNCHANGED <<handle, cpc, wpc, cur, rxOpen, inbound, arrived, nread, wire, protoVars, appVars>>

\* the mutant: a send that lets the channel's error go (let _ = tx.send(..))
SendSilent(caller) ==
    /\ handle = "live"
    /\ hand[caller].full
    /\ hand' = [hand EXCEPT ![caller] = [full |-> FALSE, msg |-> NoMessage]]
    /\ IF rxOpen
       THEN /\ queue' = Append(queue, Serialize(hand[caller].msg))
            /\ enq' = Append(enq, Serialize(hand[caller].msg))
       ELSE UNCHANGED <<queue, enq>>
    /\ UNCHANGED <<handle, cpc, wpc, cur, rxOpen, nextId, inbound, arrived, nread, log, wire,
                   protoVars, appVars>>

\* RCONSocket::send
Send(caller) ==
    /\ handle = "live"
    /\ hand[caller].full
    /\ hand' = [hand EXCEPT ![caller] = NoHand]
    /\ IF rxOpen
       THEN /\ queue' = Append(queue, Serialize(hand[caller].msg))
            /\ enq' = Append(enq, Serialize(hand[caller].msg))
            /\ UNCHANGED log
       ELSE /\ log' = Append(log, OnLog("send", 0, SendFailed("channel closed"), NoLevel))
            /\ UNCHANGED <<queue, enq>>
    /\ UNCHANGED <<handle, cpc, wpc, cur, rxOpen, nextId, inbound, arrived, nread, wire,
                   protoVars, appVars>>

\* the mutant: dropping the RCONSocket aborts the connection task
DropHandleCancels ==
    /\ handle = "live"
    /\ handle' = "dropped"
    /\ cpc' = IF cpc = "reading" THEN "done" ELSE cpc
    /\ UNCHANGED <<wpc, cur, queue, rxOpen, hand, nextId, inbound, arrived, nread, log,
                   wire, enq, protoVars, appVars>>

\* the caller lets go of the RCONSocket, and with it of the only sender
DropHandle ==
    /\ handle = "live"
    /\ handle' = "dropped"
    /\ UNCHANGED <<cpc, wpc, cur, queue, rxOpen, hand, nextId, inbound, arrived, nread, log,
                   wire, enq, protoVars, appVars>>

\* the mutant: one loop for both halves, which reads what has arrived before it writes
WriterRecvAfterReads ==
    /\ wpc = "recv"
    /\ queue # <<>>
    /\ inbound = <<>>
    /\ cur' = <<Head(queue)>>
    /\ queue' = Tail(queue)
    /\ wpc' = "sending"
    /\ UNCHANGED <<handle, cpc, rxOpen, hand, nextId, inbound, arrived, nread, log, wire, enq,
                   protoVars, appVars>>

\* while let Some(msg) = rx.recv().await
WriterRecv ==
    /\ wpc = "recv"
    /\ queue # <<>>
    /\ cur' = <<Recv(queue).msg>>
    /\ queue' = Recv(queue).rest
    /\ wpc' = "sending"
    /\ UNCHANGED <<handle, cpc, rxOpen, hand, nextId, inbound, arrived, nread, log, wire, enq,
                   protoVars, appVars>>

\* the mutant: a channel that, its sender gone, throws away what still waits in it
WriterClosedDiscards ==
    /\ wpc = "recv"
    /\ handle = "dropped"
    /\ wpc' = "done"
    /\ rxOpen' = FALSE
    /\ queue' = <<>>
    /\ UNCHANGED <<handle, cpc, cur, hand, nextId, inbound, arrived, nread, log, wire,
                   enq, protoVars, appVars>>

\* the mutant: a writer that ends with the handle, messages still waiting
WriterClosedEarly ==
    /\ wpc = "recv"
    /\ handle = "dropped"
    /\ wpc' = "done"
    /\ rxOpen' = FALSE
    /\ UNCHANGED <<handle, cpc, cur, queue, hand, nextId, inbound, arrived, nread, log, wire,
                   enq, protoVars, appVars>>

\* rx.recv() yields None: the channel is empty and its sender is gone
WriterClosed ==
    /\ wpc = "recv"
    /\ queue = <<>>
    /\ handle = "dropped"
    /\ wpc' = "done"
    /\ rxOpen' = FALSE
    /\ UNCHANGED <<handle, cpc, cur, queue, hand, nextId, inbound, arrived, nread, log, wire,
                   enq, protoVars, appVars>>

\* the mutant: a writer that returns at a failed transmission, dropping the receiver
WriterSendGivesUp(ok) ==
    /\ wpc = "sending"
    /\ wire' = Append(wire, [frame |-> cur[1], ok |-> ok])
    /\ log' = IF ok THEN log
              ELSE Append(log, OnLog("writer", 0, SendFailed("connection error"), NoLevel))
    /\ cur' = <<>>
    /\ wpc' = IF ok THEN "recv" ELSE "done"
    /\ rxOpen' = ok
    /\ queue' = IF ok THEN queue ELSE <<>>
    /\ UNCHANGED <<handle, cpc, hand, nextId, inbound, arrived, nread, enq, protoVars, appVars>>

\* the mutant: a writer that keeps the message it failed to transmit and tries again
WriterSendRetry(ok) ==
    /\ wpc = "sending"
    /\ wire' = Append(wire, [frame |-> cur[1], ok |-> ok])
    /\ log' = IF ok THEN log
              ELSE Append(log, OnLog("writer", 0, SendFailed("connection error"), NoLevel))
    /\ cur' = IF ok THEN <<>> ELSE cur
    /\ wpc' = IF ok THEN "recv" ELSE "sending"
    /\ UNCHANGED <<handle, cpc, queue, rxOpen, hand, nextId, inbound, arrived, nread, enq,
                   protoVars, appVars>>

\* the mutant: a writer that gives up at its first failed transmission
AfterSendErrorStop == "done"

\* the writer loop after a failed transmission: the if has no break, the loop goes on
AfterSendError == "recv"

\* write.send(Message::Text(msg)).await, which succeeds or fails
WriterSend(ok) ==
    /\ wpc = "sending"
    /\ wire' = Append(wire, [frame |-> cur[1], ok |-> ok])
    /\ log' = IF ok THEN log
              ELSE Append(log, OnLog("writer", 0, SendFailed("connection error"), NoLevel))
    /\ cur' = <<>>
    /\ wpc' = IF ok THEN "recv" ELSE AfterSendError
    /\ UNCHANGED <<handle, cpc, queue, rxOpen, hand, nextId, inbound, arrived, nread, enq,
                   protoVars, appVars>>

\* the server's side of the connection: one more frame arrives, or the stream ends
Arrive(f) ==
    /\ cpc \in {"reading", "done"}
    /\ nextId + Len(arrived) < MaxInputs
    /\ IF arrived = <<>> THEN TRUE ELSE arrived[Len(arrived)].kind # "End"
    /\ arrived' = Append(arrived, f)
    /\ inbound' = Append(inbound, f)
    /\ UNCHANGED <<handle, cpc, wpc, cur, queue, rxOpen, hand, nextId, nread, log, wire, enq,
                   protoVars, appVars>>

\* the mutant: the frame that arrived last is read first
ReadNewest(q) == [frame |-> q[Len(q)], rest |-> SubSeq(q, 1, Len(q) - 1)]

\* read.next() on a connection that holds frames: the one that arrived first
ReadNext(q) == [frame |-> Head(q), rest |-> Tail(q)]

\* the mutant: a reader that, on leaving its loop, closes the channel under the writer
ReaderStepStopsWriter ==
    /\ cpc = "reading"
    /\ inbound # <<>>
    /\ inbound' = Tail(inbound)
    /\ nread' = nread + 1
    /\ log' = log \o Delivered(nread + 1, Head(inbound))
    /\ cpc' = AfterFrame(Head(inbound))
    /\ IF AfterFrame(Head(inbound)) = "done"
       THEN wpc' = "done" /\ rxOpen' = FALSE /\ queue' = <<>> /\ cur' = <<>>
       ELSE UNCHANGED <<wpc, rxOpen, queue, cur>>
    /\ UNCHANGED <<handle, hand, nextId, arrived, wire, enq, protoVars, appVars>>

\* while let Some(msg) = read.next().await { match msg { ... } }
ReaderStep ==
    /\ cpc = "reading"
    /\ inbound # <<>>
    /\ inbound' = ReadNext(inbound).rest
    /\ nread' = nread + 1
    /\ log' = log \o Delivered(nread + 1, ReadNext(inbound).frame)
    /\ cpc' = AfterFrame(ReadNext(inbound).frame)
    /\ UNCHANGED <<handle, wpc, cur, queue, rxOpen, hand, nextId, arrived, wire, enq,
                   protoVars, appVars>>

Init ==
    /\ SessionInit
    /\ AppIdle
    /\ pin = NoInput
    /\ pout = NoResult
    /\ ppc = "idle"

Next ==
    \/ \E host \in Hosts : Connect(host)
    \/ HandshakeOk
    \/ HandshakeFail
    \/ \E caller \in Callers, content \in Commands : NewMessage(caller, content)
    \/ \E caller \in Callers : Send(caller)
    \/ DropHandle
    \/ WriterRecv
    \/ WriterClosed
    \/ \E ok \in BOOLEAN : WriterSend(ok)
    \/ \E f \in Frames : Arrive(f)
    \/ ReaderStep

Spec == Init /\ [][Next]_vars

(***************************************************************************)
(* The configuration file (config.rs).  A TOML document is what the toml   *)
(* crate hands to serde: a table of key/value pairs in the order of the    *)
(* text, the values being strings, integers, booleans, arrays and tables,  *)
(* in the record shape of the JSON values above.  A text that is no TOML   *)
(* has no value.                                                           *)
(***************************************************************************)
TStr(str) == [t |-> "str", n |-> 0, s |-> str, kv |-> <<>>]
TInt(i) == [t |-> "int", n |-> i, s |-> <<>>, kv |-> <<>>]
TBool(b) == [t |-> "bool", n |-> IF b THEN 1 ELSE 0, s |-> <<>>, kv |-> <<>>]
TArr(items) == [t |-> "arr", n |-> 0, s |-> <<>>, kv |-> items]
TTab(pairs) == [t |-> "tab", n |-> 0, s |-> <<>>, kv |-> pairs]
TomlText(val) == [wf |-> TRUE, val |-> val]
NotToml == [wf |-> FALSE, val |-> TTab(<<>>)]

HasKey(kv, key) == \E i \in 1..Len(kv) : kv[i].k = key
ValueOf(kv, key) == kv[CHOOSE i \in 1..Len(kv) : kv[i].k = key].v

DeserializeString(v) == IF v.t = "str" THEN Ok(v.s) ELSE Err("invalid type", <<>>)
DeserializeBool(v) == IF v.t = "bool" THEN Ok(v.n = 1) ELSE Err("invalid type", FALSE)
\* u16 from a TOML integer: out of range is an error, never a wrapped value
DeserializeU16(v) ==
    IF v.t # "int" THEN Err("invalid type", 0)
    ELSE IF v.n < 0 \/ v.n > U16Max THEN Err("invalid value", 0)
    ELSE Ok(v.n)

\* config::ProtocolVersion
Latest == [latest |-> TRUE, ver |-> NoVer]
Custom(ver) == [latest |-> FALSE, ver |-> ver]

\* impl Deserialize for config::ProtocolVersion
DeserializeProtoversion(v) ==
    IF v.t # "str" THEN Err("invalid type", Latest)
    ELSE IF v.s = <<"latest">> THEN Ok(Latest)
    ELSE LET parts == Split(v.s) IN
         IF Len(parts) # 3 THEN Err("Expected format 'major.minor.revision'", Latest)
         ELSE LET major == ParseU8(parts[1])
                  minor == ParseU8(parts[2])
                  revision == ParseU8(parts[3])
              IN  IF ~major.ok THEN Err("Invalid major version", Latest)
                  ELSE IF ~minor.ok THEN Err("Invalid minor version", Latest)
                  ELSE IF ~revision.ok THEN Err("Invalid revision version", Latest)
                  ELSE Ok(Custom(<<major.value, minor.value, revision.value>>))

ServerFields == <<"name", "host", "port", "password", "protoversion">>
ServerFieldSet == {ServerFields[i] : i \in 1..Len(ServerFields)}
ServerConfig(name, host, port, password, protoversion) ==
    [name |-> name, host |-> host, port |-> port, password |-> password,
     protoversion |-> protoversion]
\* impl Default for ServerConfig
DefaultServer == ServerConfig(<<>>, <<>>, DefaultPort, <<>>, Latest)

DeserializeServerField(key, v) ==
    CASE key \in {"name", "host", "password"} -> DeserializeString(v)
      [] key = "port" -> DeserializeU16(v)
      [] key = "protoversion" -> DeserializeProtoversion(v)

\* the mutant: a field that is not in the table takes its default, as under
\* #[serde(default)]
MissingServerFieldDefault(key) == Ok(DefaultServer[key])

\* a field without #[serde(default)] that is not in the table
MissingServerField(key) == Err("missing field", DefaultServer[key])

ServerField(kv, key) ==
    IF HasKey(kv, key) THEN DeserializeServerField(key, ValueOf(kv, key))
    ELSE MissingServerField(key)

\* #[derive(Deserialize)] #[serde(deny_unknown_fields)] on ServerConfig
DeserializeServerConfig(v) ==
    IF v.t # "tab" THEN Err("invalid type", DefaultServer)
    ELSE IF \E i \in 1..Len(v.kv) : v.kv[i].k \notin ServerFieldSet
    THEN Err("unknown field", DefaultServer)
    ELSE LET field == [key \in ServerFieldSet |-> ServerField(v.kv, key)] IN
         IF \E key \in ServerFieldSet : ~field[key].ok
         THEN Err(field[CHOOSE key \in ServerFieldSet : ~field[key].ok].err, DefaultServer)
         ELSE Ok(ServerConfig(field["name"].value, field["host"].value, field["port"].value,
                              field["password"].value, field["protoversion"].value))

\* Vec<ServerConfig>: every element, or the error of one of them
DeserializeServers(v) ==
    IF v.t # "arr" THEN Err("invalid type", <<>>)
    ELSE LET each == [i \in 1..Len(v.kv) |-> DeserializeServerConfig(v.kv[i])] IN
         IF \E i \in 1..Len(each) : ~each[i].ok
         THEN Err(each[CHOOSE i \in 1..Len(each) : ~each[i].ok].err, <<>>)
         ELSE Ok([i \in 1..Len(each) |-> each[i].value])

(***************************************************************************)
(* Colours: cursive's Color::from_str, which config.rs calls.  A colour    *)
(* string is a sequence of characters.  Every colour string drawn holds    *)
(* hexadecimal digits only where digits are read: what the crate does with *)
(* another character there is outside the model.                           *)
(***************************************************************************)
Hex == <<"0", "1", "2", "3", "4", "5", "6", "7", "8", "9", "A", "B", "C", "D", "E", "F">>
HexVal(c) == (CHOOSE i \in 1..Len(Hex) : Hex[i] = c) - 1
BaseColors ==
    {<<"b", "l", "a", "c", "k">>, <<"r", "e", "d">>, <<"g", "r", "e", "e", "n">>,
     <<"y", "e", "l", "l", "o", "w">>, <<"b", "l", "u", "e">>,
     <<"m", "a", "g", "e", "n", "t", "a">>, <<"c", "y", "a", "n">>,
     <<"w", "h", "i", "t", "e">>}
LightPrefix == <<"l", "i", "g", "h", "t", " ">>
DarkPrefix == <<"d", "a", "r", "k", " ">>
DefaultName == <<"d", "e", "f", "a", "u", "l", "t">>
Color(kind, base, rgb) == [kind |-> kind, base |-> base, rgb |-> rgb]
NoColor == Color("TerminalDefault", <<>>, <<0, 0, 0>>)
HasPrefix(s, prefix) == Len(s) >= Len(prefix) /\ SubSeq(s, 1, Len(prefix)) = prefix
Strip(s, prefix) == SubSeq(s, Len(prefix) + 1, Len(s))

\* six digits are three bytes, three digits are three nibbles scaled to bytes
ParseHexColor(d) ==
    IF Len(d) = 6
    THEN Ok(Color("Rgb", <<>>, <<16 * HexVal(d[1]) + HexVal(d[2]),
                                 16 * HexVal(d[3]) + HexVal(d[4]),
                                 16 * HexVal(d[5]) + HexVal(d[6])>>))
    ELSE IF Len(d) = 3
    THEN Ok(Color("Rgb", <<>>, <<17 * HexVal(d[1]), 17 * HexVal(d[2]), 17 * HexVal(d[3])>>))
    ELSE Err("NoSuchColor", NoColor)

\* CursiveColor::from_str: a name, or a code behind '#' or "0x", or a bare code of six
\* digits, or three digits of 0..5
ParseColor(s) ==
    IF s = DefaultName THEN Ok(Color("TerminalDefault", <<>>, <<0, 0, 0>>))
    ELSE IF s \in BaseColors THEN Ok(Color("Dark", s, <<0, 0, 0>>))
    ELSE IF HasPrefix(s, DarkPrefix) /\ Strip(s, DarkPrefix) \in BaseColors
    THEN Ok(Color("Dark", Strip(s, DarkPrefix), <<0, 0, 0>>))
    ELSE IF HasPrefix(s, LightPrefix) /\ Strip(s, LightPrefix) \in BaseColors
    THEN Ok(Color("Light", Strip(s, LightPrefix), <<0, 0, 0>>))
    ELSE IF HasPrefix(s, <<"#">>) THEN ParseHexColor(Strip(s, <<"#">>))
    ELSE IF HasPrefix(s, <<"0", "x">>) THEN ParseHexColor(Strip(s, <<"0", "x">>))
    ELSE IF Len(s) = 6 THEN ParseHexColor(s)
    ELSE IF Len(s) = 3 /\ \A i \in 1..3 : s[i] \in {"0", "1", "2", "3", "4", "5"}
    THEN Ok(Color("RgbLowRes", <<>>, <<HexVal(s[1]), HexVal(s[2]), HexVal(s[3])>>))
    ELSE Err("NoSuchColor", NoColor)

\* impl Deserialize for Color
DeserializeColor(v) ==
    IF v.t # "str" THEN Err("invalid type", NoColor)
    ELSE IF ~ParseColor(v.s).ok THEN Err("Invalid color", NoColor)
    ELSE Ok(ParseColor(v.s).value)

\* HashMap<PrintLevel, Color>: every key a print level, every value a colour
DeserializeLogcolors(v) ==
    IF v.t # "tab" THEN Err("invalid type", <<>>)
    ELSE IF \E i \in 1..Len(v.kv) : ~DeserializePrintLevel(TStr(<<v.kv[i].k>>)).ok
    THEN Err("unknown variant", <<>>)
    ELSE IF \E i \in 1..Len(v.kv) : ~DeserializeColor(v.kv[i].v).ok
    THEN Err(DeserializeColor(v.kv[CHOOSE i \in 1..Len(v.kv) :
                                      ~DeserializeColor(v.kv[i].v).ok].v).err, <<>>)
    ELSE Ok([i \in 1..Len(v.kv) |->
                [level |-> DeserializePrintLevel(TStr(<<v.kv[i].k>>)).value,
                 color |-> DeserializeColor(v.kv[i].v).value]])

ConfigFieldSet == {"colorize_logs", "servers", "logcolors"}
Config(colorize_logs, servers, logcolors) ==
    [colorize_logs |-> colorize_logs, servers |-> servers, logcolors |-> logcolors]
\* what a failed load yields in place of a configuration
NoConfig == [kind |-> "none"]
\* Config::new, the Default of Config; the tests hold its logcolors to be what a
\* document without a logcolors table gives
ConfigNew == Config(FALSE, <<>>, <<>>)

\* #[derive(Deserialize)] #[serde(deny_unknown_fields)] on Config; logcolors alone has
\* #[serde(default)]
DeserializeConfig(v) ==
    IF v.t # "tab" THEN Err("invalid type", NoConfig)
    ELSE IF \E i \in 1..Len(v.kv) : v.kv[i].k \notin ConfigFieldSet
    THEN Err("unknown field", NoConfig)
    ELSE IF ~HasKey(v.kv, "colorize_logs") \/ ~HasKey(v.kv, "servers")
    THEN Err("missing field", NoConfig)
    ELSE LET colorize == DeserializeBool(ValueOf(v.kv, "colorize_logs"))
             servers == DeserializeServers(ValueOf(v.kv, "servers"))
             logcolors == IF HasKey(v.kv, "logcolors")
                          THEN DeserializeLogcolors(ValueOf(v.kv, "logcolors"))
                          ELSE Ok(<<>>)
         IN  IF ~colorize.ok THEN Err(colorize.err, NoConfig)
             ELSE IF ~servers.ok THEN Err(servers.err, NoConfig)
             ELSE IF ~logcolors.ok THEN Err(logcolors.err, NoConfig)
             ELSE Ok(Config(colorize.value, servers.value, logcolors.value))

\* toml::from_str::<Config>
TomlFromStr(text) ==
    IF ~text.wf THEN Err("syntax", NoConfig)
    ELSE DeserializeConfig(text.val)

\* the file system as Config::load finds it
ConfigFile(dir, exists, readable, text) ==
    [dir |-> dir, exists |-> exists, readable |-> readable, text |-> text]

\* Config::load
Load(fs) ==
    IF ~fs.dir THEN Err("NoConfigDir", NoConfig)
    ELSE IF ~fs.exists THEN Ok(ConfigNew)
    ELSE IF ~fs.readable THEN Err("FileError", NoConfig)
    ELSE IF ~TomlFromStr(fs.text).ok THEN Err("ParseError", NoConfig)
    ELSE TomlFromStr(fs.text)

(***************************************************************************)
(* SpecConfig: Config::load applied to configuration files.  A document    *)
(* has at most MaxServers server entries, one of them drawn from the       *)
(* entries with and without a defect and the others complete, and at most  *)
(* MaxColors log colours, one of them drawn from good and bad keys and     *)
(* values and the others good.                                             *)
(***************************************************************************)
Without(kv, key) == SelectSeq(kv, LAMBDA p : p.k # key)
Replace(kv, key, val) == [i \in 1..Len(kv) |-> IF kv[i].k = key THEN Pair(key, val) ELSE kv[i]]
FullServer ==
    <<Pair("name", TStr(<<"A cool server">>)), Pair("host", TStr(<<"1.2.3.4">>)),
      Pair("port", TInt(DefaultPort)), Pair("password", TStr(<<"password">>)),
      Pair("protoversion", TStr(<<"latest">>))>>
FreeServers ==
    {FullServer}
      \cup {Without(FullServer, key) : key \in ServerFieldSet}
      \cup {Without(Without(FullServer, "name"), "port")}
      \cup {Append(FullServer, Pair("motd", TStr(<<"hi">>)))}
      \cup {Replace(FullServer, "port", val) : val \in {TInt(U16Max + 1), TInt(-1), TStr(<<"1">>)}}
      \cup {Replace(FullServer, "protoversion", TStr(ver)) :
               ver \in {<<"1", ".", "0", ".", "0">>, <<"1", ".", "0">>, <<"2", "5", "6", ".", "0", ".", "0">>}}
FixedServers == {FullServer, Replace(FullServer, "name", TStr(<<"Another cool server">>))}
ServerArrays ==
    {<<>>} \cup UNION {{[i \in 1..n |-> IF i = p THEN TTab(free) ELSE TTab(fixed[i])] :
                           p \in 1..n, free \in FreeServers, fixed \in [1..n -> FixedServers]} :
                       n \in 1..MaxServers}

HexRed == <<"#", "F", "F", "0", "0", "0", "0">>
FreeColorKeys == {"error", "what", "Error"}
FreeColorValues ==
    {TStr(HexRed), TStr(<<"r", "e", "d">>), TStr(LightPrefix \o <<"r", "e", "d">>),
     TStr(<<"1", "2", "3", "4", "5", "6", "7">>), TStr(<<"w", "h", "a", "t">>), TInt(1)}
FixedColorKeys == <<"high", "chat", "warning", "pickup">>
ColorTables ==
    {<<>>} \cup UNION {{[i \in 1..n |-> IF i = p THEN Pair(key, val)
                                        ELSE Pair(FixedColorKeys[i], TStr(DefaultName))] :
                           p \in 1..n, key \in FreeColorKeys, val \in FreeColorValues} :
                       n \in 1..MaxColors}
ColorizeValues == {TBool(TRUE), TBool(FALSE), TStr(<<"yes">>)}

Document(colorize, servers, colors, extra) ==
    TTab((IF colorize.some THEN <<Pair("colorize_logs", colorize.v)>> ELSE <<>>)
         \o (IF servers.some THEN <<Pair("servers", servers.v)>> ELSE <<>>)
         \o (IF colors.some THEN <<Pair("logcolors", colors.v)>> ELSE <<>>)
         \o (IF extra THEN <<Pair("theme", TStr(<<"dark">>))>> ELSE <<>>))
Some(v) == [some |-> TRUE, v |-> v]
None == [some |-> FALSE, v |-> TInt(0)]

ConfigInit ==
    /\ SessionInit
    /\ AppIdle
    /\ \/ \E servers \in ServerArrays, colors \in ColorTables, colorize \in ColorizeValues :
              pin = [kind |-> "file",
                     fs |-> ConfigFile(TRUE, TRUE, TRUE,
                                       TomlText(Document(Some(colorize), Some(TArr(servers)),
                                                         Some(TTab(colors)), FALSE)))]
       \/ \E servers \in ServerArrays, hasColorize \in BOOLEAN, hasServers \in BOOLEAN,
             extra \in BOOLEAN :
              pin = [kind |-> "file",
                     fs |-> ConfigFile(TRUE, TRUE, TRUE,
                                       TomlText(Document(
                                           IF hasColorize THEN Some(TBool(TRUE)) ELSE None,
                                           IF hasServers THEN Some(TArr(servers)) ELSE None,
                                           None, extra)))]
       \/ \E dir \in BOOLEAN, exists \in BOOLEAN, readable \in BOOLEAN :
              pin = [kind |-> "file", fs |-> ConfigFile(dir, exists, readable, NotToml)]
    /\ pout = NoResult
    /\ ppc = "input"

LoadConfig ==
    /\ ppc = "input"
    /\ pin.kind = "file"
    /\ pout' = Load(pin.fs)
    /\ ppc' = "loaded"
    /\ UNCHANGED <<pin, sessionVars, appVars>>

ConfigNext == LoadConfig
SpecConfig == ConfigInit /\ [][ConfigNext]_vars

(***************************************************************************)
(* The interface (main.rs): the Cursive root with its stack of layers and  *)
(* its one user data value, and the sessions opened.  Of a layer the model *)
(* keeps its view, the server (and its index, 0 for none) a dialog was     *)
(* opened for, and the items of the server list of a main menu.  The text  *)
(* of the console and the messages typed into it are outside the model.    *)
(***************************************************************************)
Layer(view, index, server, items) ==
    [view |-> view, index |-> index, server |-> server, items |-> items]
AppState(config) == [type |-> "AppState", config |-> config]
\* the tokio::sync::mpsc::UnboundedSender<String> of a console layer
Sender == [type |-> "UnboundedSender", config |-> NoConfig]
Started(config, layers) ==
    [running |-> TRUE, panicked |-> "", layers |-> layers, user_data |-> AppState(config)]
\* s.user_data::<AppState>() is Some
HasAppState(s) == s.user_data.type = "AppState"
Top(s) == s.layers[Len(s.layers)]
TopIs(view) == siv.running /\ siv.layers # <<>> /\ Top(siv).view = view
AddLayer(s, layer) == [s EXCEPT !.layers = Append(@, layer)]
PopLayer(s) == [s EXCEPT !.layers = IF @ = <<>> THEN @ ELSE SubSeq(@, 1, Len(@) - 1)]
\* a panic in a callback (unwrap on None, index out of bounds) ends the program
Panic(s, where) == [s EXCEPT !.running = FALSE, !.panicked = where]
ErrorPopup(s) == AddLayer(s, Layer("popup", 0, DefaultServer, <<>>))
Names(config) == [i \in 1..Len(config.servers) |-> config.servers[i].name]
Remove(seq, i) == SubSeq(seq, 1, i - 1) \o SubSeq(seq, i + 1, Len(seq))

\* server_list: with_user_data runs its closure only on user data of type AppState
ServerList(s) == IF HasAppState(s) THEN Names(s.user_data.config) ELSE <<>>
MainMenu(s) == AddLayer(s, Layer("menu", 0, DefaultServer, ServerList(s)))

\* rebuild_server_list: the unwrap, then the first view named server_list
RebuildServerList(s) ==
    IF ~HasAppState(s) THEN Panic(s, "rebuild_server_list")
    ELSE IF \A i \in 1..Len(s.layers) : s.layers[i].view # "menu" THEN s
    ELSE LET first == CHOOSE i \in 1..Len(s.layers) :
                          /\ s.layers[i].view = "menu"
                          /\ \A j \in 1..(i - 1) : s.layers[j].view # "menu"
         IN  [s EXCEPT !.layers[first].items = Names(s.user_data.config)]

\* str::parse::<u16>, as ParseU8 is for u8
RECURSIVE ParseU16Digits(_, _, _)
ParseU16Digits(digits, i, result) ==
    IF i > Len(digits) THEN Ok(result)
    ELSE IF digits[i] \notin DigitSet THEN Err("InvalidDigit", 0)
    ELSE IF result * 10 > U16Max THEN Err("PosOverflow", 0)
    ELSE IF result * 10 + DigitVal(digits[i]) > U16Max THEN Err("PosOverflow", 0)
    ELSE ParseU16Digits(digits, i + 1, result * 10 + DigitVal(digits[i]))
ParseU16(src) ==
    IF src = <<>> THEN Err("Empty", 0)
    ELSE IF Len(src) = 1 /\ src[1] \in {"+", "-"} THEN Err("InvalidDigit", 0)
    ELSE ParseU16Digits(IF src[1] = "+" THEN Tail(src) ELSE src, 1, 0)

\* verify_port: no text is the default port; Err stands for None, given with a popup
VerifyPort(port) ==
    IF port = <<>> THEN Ok(DefaultPort)
    ELSE IF ParseU16(port).ok THEN Ok(ParseU16(port).value)
    ELSE Err("Port must be in the range 0-65535", 0)

\* one session opened: who opened it, the endpoint asked for, the connection target
Session(via, host, port, target) ==
    [via |-> via, host |-> host, port |-> port, target |-> target]
\* format!("ws://{}:{}", host, port) of RCONSocket::connect
ConnectTarget(host, port) == <<"ws://">> \o host \o <<":">> \o FormatUnsigned(port)
\* "ws://127.0.0.1:10666" of the console layer's connection task
ConsoleTarget == <<"ws://", "127.0.0.1", ":", "1", "0", "6", "6", "6">>

\* rcon_layer: the console layer, the sender as user data, the connection task
RconLayer(s) == [AddLayer(s, Layer("console", 0, DefaultServer, <<>>)) EXCEPT !.user_data = Sender]

\* edit_server: the dialog filled from the server of the index, or blank
EditServer(s, index) ==
    IF index = 0 THEN AddLayer(s, Layer("edit", 0, DefaultServer, <<>>))
    ELSE IF ~HasAppState(s) THEN Panic(s, "edit_server")
    ELSE IF index > Len(s.user_data.config.servers) THEN Panic(s, "edit_server")
    ELSE AddLayer(s, Layer("edit", index, s.user_data.config.servers[index], <<>>))

(***************************************************************************)
(* SpecApp: the interface from its start, under the actions of its user,   *)
(* and RCONSocket::connect called with an endpoint.                        *)
(***************************************************************************)
AppServers ==
    {ServerConfig(<<"A cool server">>, <<"1.2.3.4">>, DefaultPort, <<"password">>, Latest),
     ServerConfig(<<"Another cool server">>, <<"example.com">>, 1, <<>>, Custom(<<1, 0, 0>>))}
QuickHosts == {<<"127.0.0.1">>, <<"example.com">>}
PortTexts == {<<>>, <<"1">>, <<"9", "9", "9", "9", "9">>}
Forms ==
    {[name |-> <<"Mine">>, host |-> <<"10.0.0.1">>, port |-> port, password |-> password,
      protocol |-> Latest] : port \in PortTexts, password \in {<<>>, <<"secret">>}}

\* main: the configuration loaded, or the default one and a popup; the user data; the
\* main menu
AppInit ==
    /\ SessionInit
    /\ pin = NoInput
    /\ pout = NoResult
    /\ ppc = "idle"
    /\ opened = <<>>
    /\ \/ \E n \in 0..MaxServers : \E servers \in [1..n -> AppServers], colorize \in BOOLEAN :
              siv = MainMenu(Started(Config(colorize, servers, <<>>), <<>>))
       \/ siv = MainMenu(ErrorPopup(Started(ConfigNew, <<>>)))

\* the Connect button of quick connect
QuickConnect(hostname, port) ==
    /\ TopIs("menu")
    /\ Len(opened) < MaxSessions
    /\ IF VerifyPort(port).ok
       THEN /\ siv' = RconLayer(PopLayer(siv))
            /\ opened' = Append(opened, Session("rcon_layer", hostname, VerifyPort(port).value,
                                                ConsoleTarget))
       ELSE /\ siv' = ErrorPopup(siv)
            /\ UNCHANGED opened
    /\ UNCHANGED <<sessionVars, protoVars>>

\* the Settings button: settings unwraps the user data as AppState
OpenSettings ==
    /\ TopIs("menu")
    /\ siv' = IF HasAppState(siv) THEN AddLayer(siv, Layer("settings", 0, DefaultServer, <<>>))
              ELSE Panic(siv, "settings")
    /\ UNCHANGED <<opened, sessionVars, protoVars>>

\* Save of the settings dialog; saved tells whether Config::save succeeded
SettingsSave(colorize, saved) ==
    /\ TopIs("settings")
    /\ siv' = IF ~HasAppState(siv) THEN PopLayer(siv)
              ELSE IF saved
              THEN PopLayer([siv EXCEPT !.user_data.config.colorize_logs = colorize])
              ELSE ErrorPopup([siv EXCEPT !.user_data.config.colorize_logs = colorize])
    /\ UNCHANGED <<opened, sessionVars, protoVars>>

\* the About button
About ==
    /\ TopIs("menu")
    /\ siv' = AddLayer(siv, Layer("about", 0, DefaultServer, <<>>))
    /\ UNCHANGED <<opened, sessionVars, protoVars>>

\* the dismiss button of a dialog (Cancel, No, Ok)
Dismiss ==
    /\ siv.running
    /\ siv.layers # <<>>
    /\ Top(siv).view \in {"settings", "edit", "modes", "areyousure", "popup", "about"}
    /\ siv' = PopLayer(siv)
    /\ UNCHANGED <<opened, sessionVars, protoVars>>

\* the New Server button
NewServer ==
    /\ TopIs("menu")
    /\ siv' = EditServer(siv, 0)
    /\ UNCHANGED <<opened, sessionVars, protoVars>>

\* on_submit of the server list: the dialog of the chosen server
SubmitServer(id) ==
    /\ TopIs("menu")
    /\ id \in 1..Len(Top(siv).items)
    /\ siv' = IF ~HasAppState(siv) THEN Panic(siv, "server_list")
              ELSE IF id > Len(siv.user_data.config.servers) THEN Panic(siv, "server_list")
              ELSE AddLayer(siv, Layer("modes", id, siv.user_data.config.servers[id], <<>>))
    /\ UNCHANGED <<opened, sessionVars, protoVars>>

\* Connect of the server dialog: the dialog is popped, the main menu stays below
ModesConnect ==
    /\ TopIs("modes")
    /\ Len(opened) < MaxSessions
    /\ siv' = RconLayer(PopLayer(siv))
    /\ opened' = Append(opened, Session("rcon_layer", Top(siv).server.host, Top(siv).server.port,
                                        ConsoleTarget))
    /\ UNCHANGED <<sessionVars, protoVars>>

\* Edit of the server dialog
ModesEdit ==
    /\ TopIs("modes")
    /\ siv' = EditServer(PopLayer(siv), Top(siv).index)
    /\ UNCHANGED <<opened, sessionVars, protoVars>>

\* Delete of the server dialog
ModesDelete ==
    /\ TopIs("modes")
    /\ siv' = AddLayer(siv, Layer("areyousure", Top(siv).index, Top(siv).server, <<>>))
    /\ UNCHANGED <<opened, sessionVars, protoVars>>

\* Yes of the delete dialog: a popup of a failed save is what the first pop removes
DeleteYes(saved) ==
    /\ TopIs("areyousure")
    /\ siv' = IF ~HasAppState(siv) THEN Panic(siv, "delete")
              ELSE IF Top(siv).index > Len(siv.user_data.config.servers)
              THEN Panic(siv, "delete")
              ELSE LET removed == [siv EXCEPT !.user_data.config.servers =
                                                  Remove(@, Top(siv).index)]
                   IN  RebuildServerList(PopLayer(PopLayer(IF saved THEN removed
                                                           ELSE ErrorPopup(removed))))
    /\ UNCHANGED <<opened, sessionVars, protoVars>>

\* Save of the server dialog
EditSave(form, saved) ==
    /\ TopIs("edit")
    /\ (HasAppState(siv) /\ Top(siv).index = 0) =>
           Len(siv.user_data.config.servers) < MaxServers
    /\ LET port == VerifyPort(form.port)
           password == IF form.password = <<>> THEN Top(siv).server.password
                       ELSE form.password
           server == ServerConfig(form.name, form.host, port.value, password, form.protocol)
           index == Top(siv).index
       IN  siv' = IF ~port.ok THEN ErrorPopup(siv)
                  ELSE IF ~HasAppState(siv) THEN RebuildServerList(PopLayer(siv))
                  ELSE IF index > Len(siv.user_data.config.servers) THEN Panic(siv, "edit_server")
                  ELSE LET stored ==
                               [siv EXCEPT !.user_data.config.servers =
                                               IF index = 0 THEN Append(@, server)
                                               ELSE [@ EXCEPT ![index] = server]]
                       IN  RebuildServerList(IF saved THEN PopLayer(stored)
                                             ELSE ErrorPopup(stored))
    /\ UNCHANGED <<opened, sessionVars, protoVars>>

\* Disconnect of the console layer: the layer is popped and the main menu built anew
Disconnect ==
    /\ TopIs("console")
    /\ siv' = MainMenu(PopLayer(siv))
    /\ UNCHANGED <<opened, sessionVars, protoVars>>

\* Quit of the console layer
Quit ==
    /\ TopIs("console")
    /\ siv' = [siv EXCEPT !.running = FALSE]
    /\ UNCHANGED <<opened, sessionVars, protoVars>>

\* RCONSocket::connect called for an endpoint: the target it hands to the handshake
SocketConnect(host, port) ==
    /\ siv.running
    /\ Len(opened) < MaxSessions
    /\ IF IntoClientRequestOk(ConnectTarget(host, port))
       THEN opened' = Append(opened, Session("connect", host, port, ConnectTarget(host, port)))
       ELSE UNCHANGED opened
    /\ UNCHANGED <<siv, sessionVars, protoVars>>

AppNext ==
    \/ \E hostname \in QuickHosts, port \in PortTexts : QuickConnect(hostname, port)
    \/ OpenSettings
    \/ \E colorize \in BOOLEAN, saved \in BOOLEAN : SettingsSave(colorize, saved)
    \/ About
    \/ Dismiss
    \/ NewServer
    \/ \E id \in 1..MaxServers : SubmitServer(id)
    \/ ModesConnect
    \/ ModesEdit
    \/ ModesDelete
    \/ \E saved \in BOOLEAN : DeleteYes(saved)
    \/ \E form \in Forms, saved \in BOOLEAN : EditSave(form, saved)
    \/ Disconnect
    \/ Quit
    \/ \E host \in Hosts, port \in {DefaultPort, 1} : SocketConnect(host, port)
SpecApp == AppInit /\ [][AppNext]_vars

(***************************************************************************)
(* What the claims speak of, stated without the code's own operators.      *)
(***************************************************************************)
ServerTags == {"login_response", "login_failure", "login_success", "print", "maplist"}
ClientTags == {"login_request", "login_password", "command", "maplist"}
TagsOf(dir) == IF dir = "server" THEN ServerTags ELSE ClientTags
UnitTags == {"login_success", "maplist"}
LevelNames ==
    {<<"pickup", "Pickup">>, <<"obituary", "Obituary">>, <<"high", "High">>,
     <<"chat", "Chat">>, <<"teamchat", "TeamChat">>, <<"serverchat", "ServerChat">>,
     <<"warning", "Warning">>, <<"error", "Error">>}
TagNames ==
    {<<"login_response", "LoginResponse">>, <<"login_failure", "LoginFailure">>,
     <<"login_success", "LoginSuccess">>, <<"print", "Print">>, <<"maplist", "Maplist">>,
     <<"login_request", "LoginRequest">>, <<"login_password", "LoginPassword">>,
     <<"command", "Command">>}
NameOf(table, w) == (CHOOSE e \in table : e[1] = w)[2]
WireOf(table, name) == (CHOOSE e \in table : e[2] = name)[1]

\* a decimal numeral of Rust's unsigned syntax: digits, which one '+' may precede
NumeralDigits(seg) == IF seg # <<>> /\ seg[1] = "+" THEN Tail(seg) ELSE seg
IsNumeral(seg) ==
    /\ NumeralDigits(seg) # <<>>
    /\ \A i \in 1..Len(NumeralDigits(seg)) : NumeralDigits(seg)[i] \in DigitSet
RECURSIVE Pow10(_)
Pow10(k) == IF k = 0 THEN 1 ELSE 10 * Pow10(k - 1)
RECURSIVE WeightedSum(_, _)
WeightedSum(d, i) ==
    IF i > Len(d) THEN 0 ELSE DigitVal(d[i]) * Pow10(Len(d) - i) + WeightedSum(d, i + 1)
NumeralValue(seg) == WeightedSum(NumeralDigits(seg), 1)
DenotesByte(seg) == IsNumeral(seg) /\ NumeralValue(seg) \in 0..255
OnlyDigits(seg) == seg # <<>> /\ \A i \in 1..Len(seg) : seg[i] \in DigitSet

ValuesAt(val, key) ==
    IF val.t # "obj" THEN {} ELSE {val.kv[i].v : i \in {j \in 1..Len(val.kv) : val.kv[j].k = key}}
CountAt(val, key) ==
    IF val.t # "obj" THEN 0 ELSE Cardinality({j \in 1..Len(val.kv) : val.kv[j].k = key})
IsTag(v, tags) == v.t = "str" /\ Len(v.s) = 1 /\ v.s[1] \in tags
IsUint(v) == v.t = "num" /\ v.n >= 0
IsLevel(v) == v.t = "str" /\ Len(v.s) = 1 /\ \E e \in LevelNames : e[1] = v.s[1]

\* the payload shape each tag requires
ShapeMatches(tag, v) ==
    CASE tag \in UnitTags -> v.t = "null"
      [] tag = "login_response" -> IsUint(v)
      [] tag \in {"login_failure", "login_password", "command"} -> v.t = "str"
      [] tag = "login_request" ->
            /\ v.t = "str"
            /\ Len(Split(v.s)) = 3
            /\ \A i \in 1..3 : DenotesByte(Split(v.s)[i])
      [] tag = "print" ->
            /\ v.t = "obj"
            /\ CountAt(v, "printlevel") = 1 /\ \A l \in ValuesAt(v, "printlevel") : IsLevel(l)
            /\ CountAt(v, "text") = 1 /\ \A x \in ValuesAt(v, "text") : x.t = "str"

\* one of the five defects of a frame, for the direction parsed
Malformed(dir, text) ==
    \/ ~text.wf
    \/ CountAt(text.val, "id") = 0
    \/ \E v \in ValuesAt(text.val, "id") : ~IsUint(v)
    \/ \E v \in ValuesAt(text.val, "type") : ~IsTag(v, TagsOf(dir))
    \/ \E v \in ValuesAt(text.val, "type") :
          /\ IsTag(v, TagsOf(dir))
          /\ \/ \E c \in ValuesAt(text.val, "content") : ~ShapeMatches(v.s[1], c)
             \/ CountAt(text.val, "content") = 0 /\ v.s[1] \notin UnitTags

\* a frame with one tag of the server's set, one id and the payload of the tag
WellFormedServer(text) ==
    /\ text.wf
    /\ text.val.t = "obj"
    /\ CountAt(text.val, "type") = 1
    /\ \A v \in ValuesAt(text.val, "type") : IsTag(v, ServerTags)
    /\ CountAt(text.val, "id") = 1
    /\ \A v \in ValuesAt(text.val, "id") : IsUint(v)
    /\ \A v \in ValuesAt(text.val, "type") :
          \/ CountAt(text.val, "content") = 0 /\ v.s[1] \in UnitTags
          \/ /\ CountAt(text.val, "content") = 1
             /\ \A c \in ValuesAt(text.val, "content") : ShapeMatches(v.s[1], c)

The(set) == CHOOSE x \in set : TRUE
\* the content a well-formed server frame stands for
ExpectedContent(text) ==
    LET tag == The(ValuesAt(text.val, "type")).s[1]
        c == IF CountAt(text.val, "content") = 0 THEN JNull
             ELSE The(ValuesAt(text.val, "content"))
    IN  CASE tag \in UnitTags -> Unit(NameOf(TagNames, tag))
          [] tag = "login_response" -> LoginResponse(c.n)
          [] tag = "login_failure" -> LoginFailure(c.s)
          [] tag = "print" ->
                PrintContent(NameOf(LevelNames, The(ValuesAt(c, "printlevel")).s[1]),
                             The(ValuesAt(c, "text")).s)

(***************************************************************************)
(* The protocol claims.                                                    *)
(***************************************************************************)
\* C2: round-trip law. A message of either direction, serialized and parsed again as
\* the same message type, parses successfully and equals the message it came from:
\* same variant, same payload, same id.
C2_RoundTrip == ppc = "roundtrip" => pout.res.ok /\ pout.res.value = pin.msg

\* a client Maplist, whose serialized form has no content key, has come back
C2_Witness ==
    /\ ppc = "roundtrip"
    /\ pin.dir = "client"
    /\ pin.msg = Message(Unit("Maplist"), 5)
    /\ CountAt(pout.text.val, "content") = 0
    /\ pout.res.ok

\* C3: a text that is not JSON, or carries a tag outside the tag set of the direction
\* parsed, or a payload that does not have the shape of its tag, or no id, or an id
\* that is not a non-negative integer, parses to a decode error and to no message.
C3_MalformedRejected ==
    (ppc = "parsed" /\ Malformed(pout.dir, pin.text))
        => ~pout.res.ok /\ pout.res.value = NoMessage

\* a client's tag on a frame parsed as a server message has been refused
C3_Witness ==
    /\ ppc = "parsed"
    /\ pout.dir = "server"
    /\ pin.text = JsonText(JObj(<<Pair("type", JStr(<<"command">>)),
                                  Pair("content", JStr(<<"bad password">>)),
                                  Pair("id", JNum(2))>>))
    /\ ~pout.res.ok

\* C4: a well-formed server frame, parsed from text or from the decoded JSON value,
\* yields the envelope whose id is the frame's id and whose content is the variant the
\* tag names with the payload of the content field.
C4_ServerFrameParsed ==
    (ppc \in {"parsed", "parsedValue"} /\ pout.dir = "server" /\ WellFormedServer(pin.text))
        => /\ pout.res.ok
           /\ pout.res.value.id = The(ValuesAt(pin.text.val, "id")).n
           /\ pout.res.value.content = ExpectedContent(pin.text)

\* the print frame of the tests has been parsed from its decoded value
C4_Witness ==
    /\ ppc = "parsedValue"
    /\ pout.dir = "server"
    /\ pin.text = JsonText(JObj(<<Pair("type", JStr(<<"print">>)), Pair("id", JNum(2)),
                                  Pair("content", PrintGood)>>))
    /\ pout.res = Ok(Message(PrintContent("High", <<"Hello">>), 2))

\* C5: serialize yields one JSON object with the keys type, content and id and no
\* other, type being the snake_case tag of the variant, id the envelope's id and
\* content the payload (a version as "major.minor.revision", a string as itself);
\* a variant without payload has no content key.
C5_SerializeShape ==
    ppc = "serialized" =>
        LET obj == pout.text.val
            c == pin.msg.content
            tag == WireOf(TagNames, c.variant)
        IN  /\ pout.text.wf
            /\ obj.t = "obj"
            /\ [i \in 1..Len(obj.kv) |-> obj.kv[i].k]
                   = IF tag \in UnitTags THEN <<"type", "id">> ELSE <<"type", "content", "id">>
            /\ obj.kv[1].v = JStr(<<tag>>)
            /\ obj.kv[Len(obj.kv)].v = JNum(pin.msg.id)
            /\ tag \in {"login_failure", "login_password", "command"}
                   => obj.kv[2].v = JStr(c.str)
            /\ tag = "login_response" => obj.kv[2].v = JNum(c.num)
            /\ tag = "login_request" =>
                   /\ obj.kv[2].v.t = "str"
                   /\ Len(Split(obj.kv[2].v.s)) = 3
                   /\ \A i \in 1..3 :
                         /\ OnlyDigits(Split(obj.kv[2].v.s)[i])
                         /\ NumeralValue(Split(obj.kv[2].v.s)[i]) = c.ver[i]
            /\ tag = "print" =>
                   obj.kv[2].v = JObj(<<Pair("printlevel",
                                             JStr(<<WireOf(LevelNames, c.printlevel)>>)),
                                        Pair("text", JStr(c.str))>>)

\* a login request for version 10.0.255 has been serialized
C5_Witness ==
    /\ ppc = "serialized"
    /\ pin.msg = Message(LoginRequest(<<10, 0, 255>>), 5)
    /\ pout.text = JsonText(JObj(<<Pair("type", JStr(<<"login_request">>)),
                                   Pair("content",
                                        JStr(<<"1", "0", ".", "0", ".", "2", "5", "5">>)),
                                   Pair("id", JNum(5))>>))

\* C6: decoding a version string succeeds exactly when the string is three segments
\* between dots, each a numeral (digits, which Rust's unsigned syntax lets one '+'
\* precede) of an integer in 0..255, and then yields those three integers in order;
\* any other number of segments and any segment above 255 is a failure, the value
\* being neither clamped nor truncated.
C6_VersionDecodeExact ==
    ppc = "decoded" =>
        /\ pout.ok <=> (Len(pin.segs) = 3 /\ \A i \in 1..3 : DenotesByte(pin.segs[i]))
        /\ pout.ok => pout.value = <<NumeralValue(pin.segs[1]), NumeralValue(pin.segs[2]),
                                     NumeralValue(pin.segs[3])>>

\* "0.0.256" has been refused
C6_Witness ==
    /\ ppc = "decoded"
    /\ pin.s = <<"0", ".", "0", ".", "2", "5", "6">>
    /\ ~pout.ok

\* C7: decoding fails whenever one of the three segments is empty or contains a
\* character that is not a decimal digit.
C7_NonDigitSegmentFails ==
    (ppc = "decoded" /\ Len(pin.segs) = 3 /\ \E i \in 1..3 : ~OnlyDigits(pin.segs[i]))
        => ~pout.ok

(***************************************************************************)
(* The session claims.                                                     *)
(***************************************************************************)
WireFrames == [i \in 1..Len(wire) |-> wire[i].frame]
IsPrefix(a, b) == Len(a) <= Len(b) /\ SubSeq(b, 1, Len(a)) = a
Contains(hay, needle) ==
    \E k \in 0..(Len(hay) - Len(needle)) : SubSeq(hay, k + 1, k + Len(needle)) = needle
\* the on_log invocations made for the i-th frame that arrived
EntriesFor(i) == SelectSeq(log, LAMBDA e : e.frame = i)
Parsed(f) == FromStr("server", f.text)
ParsesAsPrint(f) ==
    f.kind = "Text" /\ Parsed(f).ok /\ Parsed(f).value.content.variant = "Print"
ParsesAsOther(f) ==
    f.kind = "Text" /\ Parsed(f).ok /\ Parsed(f).value.content.variant # "Print"
BadText(f) == f.kind = "Text" /\ ~Parsed(f).ok

\* C1: the frames the writer hands to the connection are the messages the channel
\* accepted, in the order it accepted them, one frame for each: what was handed over
\* is a prefix of what was enqueued, and once the writer exists every enqueued
\* message has been handed over, is being handed over, or still waits in its place.
C1_WriterFifo ==
    /\ IsPrefix(WireFrames, enq)
    /\ cpc # "panicked" => WireFrames \o cur \o queue = enq

\* two different messages were sent and both have gone out, the first one first
C1_Witness ==
    /\ Len(wire) = 2
    /\ Len(enq) = 2
    /\ enq[1] # enq[2]
    /\ wire[1].frame = enq[1]
    /\ wire[2].frame = enq[2]

\* C8: for every text frame read that parses as a Print message on_log was invoked
\* exactly once, with the text of the message and Some(printlevel) of the message.
C8_PrintDelivered ==
    \A i \in 1..nread :
        ParsesAsPrint(arrived[i]) =>
            EntriesFor(i) = <<[src |-> "reader", frame |-> i,
                               text |-> Parsed(arrived[i]).value.content.str,
                               level |-> SomeLevel(Parsed(arrived[i]).value.content.printlevel)]>>

\* the print frame was read and ("Hello\n", Some(High)) delivered
C8_Witness ==
    /\ nread >= 1
    /\ arrived[1] = TextFrame(JsonText(JObj(<<Pair("type", JStr(<<"print">>)),
                                              Pair("content",
                                                   JObj(<<Pair("printlevel", JStr(<<"high">>)),
                                                          Pair("text", JStr(<<"Hello", "\n">>))>>)),
                                              Pair("id", JNum(2))>>)))
    /\ EntriesFor(1) = <<[src |-> "reader", frame |-> 1, text |-> <<"Hello", "\n">>,
                          level |-> SomeLevel("High")]>>

\* the payload of a message as it is, and as JSON writes it
RawPayload(c) ==
    CASE Style(c.variant) = "u64" -> FormatUnsigned(c.num)
      [] Style(c.variant) = "string" -> c.str
      [] OTHER -> <<>>
JsonEscapes == {<<"\"", "\\\"">>, <<"\\", "\\\\">>, <<"\n", "\\n">>}
Escaped(chunk) ==
    IF \E e \in JsonEscapes : e[1] = chunk
    THEN (CHOOSE e \in JsonEscapes : e[1] = chunk)[2]
    ELSE chunk
EncodedPayload(c) ==
    CASE Style(c.variant) = "u64" -> FormatUnsigned(c.num)
      [] Style(c.variant) = "string" ->
            <<"\"">> \o [i \in 1..Len(c.str) |-> Escaped(c.str[i])] \o <<"\"">>
      [] OTHER -> <<>>

\* C9 as claimed: for every text frame read that parses as a message other than Print
\* on_log was invoked exactly once, with classification None and a description that
\* contains the payload of the message.
C9_DescriptionHasPayload ==
    \A i \in 1..nread :
        ParsesAsOther(arrived[i]) =>
            /\ Len(EntriesFor(i)) = 1
            /\ EntriesFor(i)[1].level = NoLevel
            /\ Contains(EntriesFor(i)[1].text, RawPayload(Parsed(arrived[i]).value.content))

\* C9 as amended: for every text frame read that parses as a message other than Print
\* on_log was invoked exactly once, with classification None and a description that
\* begins "Received: " and contains the payload as JSON writes it: a number in
\* decimal, a string between quotes with quote, backslash and newline escaped.
C9_DescriptionHasEncodedPayload ==
    \A i \in 1..nread :
        ParsesAsOther(arrived[i]) =>
            /\ Len(EntriesFor(i)) = 1
            /\ EntriesFor(i)[1].src = "reader"
            /\ EntriesFor(i)[1].level = NoLevel
            /\ EntriesFor(i)[1].text[1] = "Received: "
            /\ Contains(EntriesFor(i)[1].text,
                        EncodedPayload(Parsed(arrived[i]).value.content))

\* the login failure whose text holds quotes was read and described
C9_Witness ==
    /\ nread >= 1
    /\ ParsesAsOther(arrived[1])
    /\ Parsed(arrived[1]).value.content = LoginFailure(<<"bad ", "\"", "pw", "\"">>)
    /\ Len(EntriesFor(1)) = 1
    /\ Contains(EntriesFor(1)[1].text, <<"\"", "bad ", "\\\"", "pw", "\\\"", "\"">>)

\* what the reader loop delivers, and where it stands, after reading the given frames
RECURSIVE ReaderRun(_, _, _)
ReaderRun(frames, i, acc) ==
    IF i > Len(frames) \/ acc.pc # "reading" THEN acc
    ELSE ReaderRun(frames, i + 1,
                   [pc |-> AfterFrame(frames[i]),
                    out |-> acc.out \o [k \in 1..Len(Delivered(i, frames[i])) |->
                                           <<Delivered(i, frames[i])[k].text,
                                             Delivered(i, frames[i])[k].level>>]])
ReadFrames == SubSeq(arrived, 1, nread)
\* the reader's on_log invocations, those for unparsable frames left out
ReaderLogButInvalid ==
    LET kept == SelectSeq(log, LAMBDA e : e.src = "reader" /\ ~BadText(arrived[e.frame]))
    IN  [k \in 1..Len(kept) |-> <<kept[k].text, kept[k].level>>]

\* C10: for every text frame read that fails to parse on_log was invoked exactly
\* once, with classification None and an error description; the session is still
\* Open after it; and everything else the reader delivered, and where the reader
\* stands, is what it would be had only the other frames arrived.
C10_ParseFailureSurvived ==
    /\ \A i \in 1..nread :
          BadText(arrived[i]) =>
              /\ Len(EntriesFor(i)) = 1
              /\ EntriesFor(i)[1].src = "reader"
              /\ EntriesFor(i)[1].level = NoLevel
              /\ EntriesFor(i)[1].text[1] = "Received invalid message: "
              /\ i = nread => SessionState = "Open"
    /\ cpc \in {"reading", "done"} =>
          LET others == ReaderRun(SelectSeq(ReadFrames, LAMBDA f : ~BadText(f)), 1,
                                  [pc |-> "reading", out |-> <<>>])
          IN  /\ ReaderLogButInvalid = others.out
              /\ cpc = others.pc

\* a frame that does not parse was read, and the print frame after it was delivered
C10_Witness ==
    /\ nread = 2
    /\ BadText(arrived[1])
    /\ ParsesAsPrint(arrived[2])
    /\ Len(EntriesFor(1)) = 1
    /\ Len(EntriesFor(2)) = 1
    /\ SessionState = "Open"

\* the reader's on_log invocations, as (text, classification)
ReaderEntries == SelectSeq(log, LAMBDA e : e.src = "reader")
ReaderLog == [k \in 1..Len(ReaderEntries) |-> <<ReaderEntries[k].text, ReaderEntries[k].level>>]
IsBinary(f) == f.kind = "Binary"
\* the step in which the reader loop takes a binary frame
TakesBinary == nread' = nread + 1 /\ IsBinary(arrived[nread + 1])

\* C11: a binary frame causes no on_log invocation and changes nothing: the step that
\* reads it leaves the log, the session state, the writer, the channel and the ids as
\* they were, and what the reader delivered and where it stands is what it would be
\* had the binary frames not arrived.
C11_BinaryIgnored ==
    /\ [](/\ \A i \in 1..nread : IsBinary(arrived[i]) => EntriesFor(i) = <<>>
          /\ cpc \in {"reading", "done"} =>
                LET others == ReaderRun(SelectSeq(ReadFrames, LAMBDA f : ~IsBinary(f)), 1,
                                        [pc |-> "reading", out |-> <<>>])
                IN  ReaderLog = others.out /\ cpc = others.pc)
    /\ [][TakesBinary =>
             /\ UNCHANGED <<handle, cpc, wpc, cur, queue, rxOpen, hand, nextId, arrived, log,
                            wire, enq>>
             /\ inbound' = Tail(inbound)]_vars

\* a binary frame was read, nothing was logged for it, and the print frame after it
\* was delivered to a session that is still open
C11_Witness ==
    /\ nread = 2
    /\ IsBinary(arrived[1])
    /\ ParsesAsPrint(arrived[2])
    /\ ReaderLog = <<<<<<"Hello", "\n">>, [some |-> TRUE, level |-> "High"]>>>>
    /\ SessionState = "Open"

IsClose(f) == f.kind = "Close"
ClosureNotice(i) ==
    [src |-> "reader", frame |-> i,
     text |-> <<"Connection to server has been closed", "\n">>,
     level |-> [some |-> FALSE, level |-> ""]]

\* C12: once the reader has taken a close frame, on_log was invoked exactly once for
\* it, with the closure notice and None; the session is Closed; the close frame is
\* the last frame the reader ever takes, and no on_log invocation is made for a frame
\* that arrived after it.
C12_CloseEndsReader ==
    \A i \in 1..nread :
        IsClose(arrived[i]) =>
            /\ EntriesFor(i) = <<ClosureNotice(i)>>
            /\ SessionState = "Closed"
            /\ nread = i
            /\ \A k \in 1..Len(log) : log[k].frame <= i

\* the close frame was read and a print frame that arrived after it waits unread
C12_Witness ==
    /\ nread = 1
    /\ Len(arrived) = 2
    /\ IsClose(arrived[1])
    /\ ParsesAsPrint(arrived[2])
    /\ inbound = <<arrived[2]>>
    /\ ReaderEntries = <<ClosureNotice(1)>>
    /\ SessionState = "Closed"

\* the on_log invocations due for the i-th frame that arrived
DueFor(i) ==
    CASE ParsesAsPrint(arrived[i]) ->
            <<<<Parsed(arrived[i]).value.content.str,
                [some |-> TRUE, level |-> Parsed(arrived[i]).value.content.printlevel]>>>>
      [] ParsesAsOther(arrived[i]) -> <<"Received: ">>
      [] BadText(arrived[i]) -> <<"Received invalid message: ">>
      [] IsClose(arrived[i]) -> <<<<"Connection to server has been closed", "\n">>>>
      [] OTHER -> <<>>
\* the i-th frame got what was due for it
GotDue(i) ==
    /\ Len(EntriesFor(i)) = Len(DueFor(i))
    /\ \A e \in 1..Len(EntriesFor(i)) :
          CASE ParsesAsPrint(arrived[i]) ->
                  <<EntriesFor(i)[e].text, EntriesFor(i)[e].level>> = DueFor(i)[e]
            [] IsClose(arrived[i]) -> EntriesFor(i)[e].text = DueFor(i)[e]
            [] OTHER -> EntriesFor(i)[e].text[1] = DueFor(i)[e]

\* C13: the reader takes the frames one at a time in the order they arrived: the
\* frames not yet taken are the tail of the arrivals, each frame taken got the
\* invocation due for that very frame, the invocations stand in the log in the order
\* of their frames, and a step of the reader takes one frame and makes invocations
\* for that frame only, so that a frame's invocation is over when the next is taken.
C13_ReaderInOrder ==
    /\ [](/\ inbound = SubSeq(arrived, nread + 1, Len(arrived))
          /\ \A i \in 1..nread : GotDue(i)
          /\ \A k \in 1..Len(ReaderEntries) : ReaderEntries[k].frame \in 1..nread
          /\ \A j, k \in 1..Len(ReaderEntries) :
                j < k => ReaderEntries[j].frame < ReaderEntries[k].frame)
    /\ [][/\ nread' \in {nread, nread + 1}
          /\ \A k \in 1..Len(log') :
                (k > Len(log) /\ log'[k].src = "reader") =>
                    nread' = nread + 1 /\ log'[k].frame = nread']_vars

\* two different frames were read and their invocations stand in arrival order
C13_Witness ==
    /\ nread = 2
    /\ ParsesAsOther(arrived[1])
    /\ ParsesAsPrint(arrived[2])
    /\ Len(ReaderEntries) = 2
    /\ ReaderEntries[1].frame = 1 /\ ReaderEntries[1].text[1] = "Received: "
    /\ ReaderEntries[2].frame = 2 /\ ReaderEntries[2].text = <<"Hello", "\n">>

HandshakeFailed == cpc = "panicked"
\* the step in which the reader loop takes a close frame or finds the stream ended
TakesLast == nread' = nread + 1 /\ arrived[nread + 1].kind \in {"Close", "End"}

\* C14: the session state only moves forward along Connecting -> Open -> Closed.
\* Connecting is left for Open (or, the handshake failing, for no state at all, and
\* for good); Open is left for Closed only; Closed is entered from Open, in the step
\* that reads a close frame or the end of the stream, and is never left; and a
\* connection attempt begins with the call of connect and at no later time.
C14_ForwardOnly ==
    [][/\ SessionState = "Connecting" =>
              SessionState' \in {"Connecting", "Open"} \/ HandshakeFailed'
       /\ SessionState = "Open" => SessionState' \in {"Open", "Closed"}
       /\ SessionState = "Closed" => SessionState' = "Closed"
       /\ HandshakeFailed => HandshakeFailed'
       /\ (SessionState # "Closed" /\ SessionState' = "Closed") =>
              SessionState = "Open" /\ TakesLast
       /\ (SessionState # "Connecting" /\ SessionState' = "Connecting") =>
              handle = "none" /\ cpc = "none"]_vars

\* a session was closed by a close frame, and a frame arrived after that
C14_Witness ==
    /\ SessionState = "Closed"
    /\ nread = 1
    /\ IsClose(arrived[1])
    /\ Len(arrived) = 2
    /\ Len(log) = 2

\* the hosts that form no connection target: the one of the test, "example com"
BadHosts == {<<"example", " ", "com">>}

\* C15: connect called with a host that forms no connection target returns an error,
\* and then nothing was spawned (no connection task, no writer task), the channel
\* has no receiving end, and on_log was not invoked and never is.
C15_InvalidHostRejected ==
    /\ [][\A host \in BadHosts : Connect(host) => handle' = "rejected"]_vars
    /\ [](handle = "rejected" =>
              /\ cpc = "none"
              /\ wpc = "none"
              /\ ~rxOpen
              /\ queue = <<>> /\ cur = <<>> /\ wire = <<>>
              /\ log = <<>>)

\* connect was refused, and nothing runs although a message stands ready to be sent
C15_Witness ==
    /\ handle = "rejected"
    /\ cpc = "none"
    /\ log = <<>>
    /\ hand["ui"].full

\* C16: every error after the handshake has begun is reported through on_log and
\* never through the result of connect: when the handshake has failed on_log was
\* invoked for it, when the reader has taken an error from the stream on_log was
\* invoked for it, and connect has returned a session in both cases.
C16_ErrorsReachOnLog ==
    /\ HandshakeFailed => \E k \in 1..Len(log) : log[k].src = "connect"
    /\ \A i \in 1..nread : arrived[i].kind = "Error" => EntriesFor(i) # <<>>
    /\ (HandshakeFailed \/ nread > 0) => handle \in {"live", "dropped"}

\* C17 as claimed: a connect-time failure, malformed target or rejected handshake, is
\* the error result of connect, and no session exists when the handshake has failed.
C17_ConnectFailureReturned ==
    /\ handle = "rejected" => cpc = "none"
    /\ HandshakeFailed => handle = "rejected"

\* C17 as amended: a malformed connection target is the error result of connect, and
\* no session is created; a rejected handshake is not: connect returns an error for
\* the malformed target only, and when the handshake fails the session it returned
\* exists already.
C17_OnlyTargetFailureReturned ==
    /\ [][\A host \in Hosts : Connect(host) => (handle' = "rejected" <=> host \in BadHosts)]_vars
    /\ [](/\ handle = "rejected" => SessionState = "None" /\ ~HandshakeFailed
          /\ SessionState = "Connecting" => handle \in {"live", "dropped"}
          /\ HandshakeFailed => handle \in {"live", "dropped"})

\* the handshake has failed and the caller holds the session connect returned
C17_Witness ==
    /\ HandshakeFailed
    /\ handle = "live"
    /\ log = <<>>

\* the consumer of the channel is gone: the connection task died before it spawned
\* the writer, or the writer has ended
ConsumerGone == HandshakeFailed \/ wpc = "done"
IsFailureNotice(e, src) ==
    /\ e.src = src
    /\ e.text[1] = "Failed to send message: "
    /\ e.level = [some |-> FALSE, level |-> ""]

\* C18: send never blocks: a caller that holds the session and a message can make the
\* call in every state of the session, whatever waits in the channel, and the call
\* is over in one step.  While the channel has its consumer the message is enqueued
\* behind the others and on_log is not invoked; once the consumer is gone on_log is
\* invoked exactly once, with a failure notice, and the message is not enqueued.
C18_SendNeverBlocks ==
    /\ [](\A c \in Callers : (handle = "live" /\ hand[c].full) => ENABLED Send(c))
    /\ [][\A c \in Callers :
             Send(c) =>
                 /\ ~hand'[c].full
                 /\ IF ConsumerGone
                    THEN /\ queue' = queue /\ enq' = enq
                         /\ Len(log') = Len(log) + 1
                         /\ SubSeq(log', 1, Len(log)) = log
                         /\ IsFailureNotice(log'[Len(log')], "send")
                    ELSE /\ Len(queue') = Len(queue) + 1
                         /\ SubSeq(queue', 1, Len(queue)) = queue
                         /\ Len(enq') = Len(enq) + 1
                         /\ log' = log]_vars

\* the handshake failed; one message sent before that was accepted, one sent after it
\* was not, and on_log was invoked for it once
C18_Witness ==
    /\ HandshakeFailed
    /\ Len(enq) = 1
    /\ nextId = 2
    /\ \A c \in Callers : ~hand[c].full
    /\ Len(log) = 1
    /\ IsFailureNotice(log[1], "send")

WriterStops == wpc # "done" /\ wpc' = "done"
\* the step in which a transmission of the writer fails
TransmissionFails == wpc = "sending" /\ Len(wire') = Len(wire) + 1 /\ ~wire'[Len(wire')].ok
FailedFrames == SelectSeq(wire, LAMBDA w : ~w.ok)
WriterEntries == SelectSeq(log, LAMBDA e : e.src = "writer")

\* C19: when a transmission fails the writer invokes on_log once with a failure
\* description and goes back to its channel, which is as it was: there is one notice
\* for each failed transmission, and the writer never ends while a message waits, so
\* that every message behind the failed one is taken and attempted in its turn.
C19_WriterSurvivesFailure ==
    /\ [][TransmissionFails =>
             /\ Len(log') = Len(log) + 1
             /\ SubSeq(log', 1, Len(log)) = log
             /\ IsFailureNotice(log'[Len(log')], "writer")
             /\ wpc' = "recv"
             /\ queue' = queue /\ rxOpen' = rxOpen]_vars
    /\ [](/\ Len(WriterEntries) = Len(FailedFrames)
          /\ (FailedFrames # <<>> /\ wpc = "done") => queue = <<>> /\ cur = <<>>)

\* a transmission failed, was reported, and the message behind it went out
C19_Witness ==
    /\ Len(wire) = 2
    /\ ~wire[1].ok
    /\ wire[2].ok
    /\ wire[2].frame = enq[2]
    /\ Len(WriterEntries) = 1

\* the step in which the writer finds its channel closed: no sender, nothing waiting
ChannelDropped == wpc = "recv" /\ handle = "dropped" /\ queue = <<>>

\* C20 as claimed: the writer stops in two situations, when its channel is dropped and
\* when a transmission of its own fails, and in no other.
C20_StopsOnDropOrFailure ==
    [][/\ TransmissionFails => WriterStops
       /\ WriterStops => ChannelDropped \/ TransmissionFails]_vars

\* C20 as amended: the writer stops in one situation, when its channel is dropped
\* (every handle gone, every message taken); a transmission that fails does not stop
\* it, and in every other situation it keeps running.
C20_StopsOnDropOnly ==
    /\ [][/\ WriterStops => ChannelDropped
          /\ TransmissionFails => ~WriterStops /\ wpc' = "recv"
          /\ wpc = "done" => wpc' = "done"]_vars
    /\ [](wpc = "done" => handle = "dropped" /\ queue = <<>> /\ cur = <<>>)

\* the writer outlived a failed transmission and a closed session, and ended when the
\* handle was dropped
C20_Witness ==
    /\ wpc = "done"
    /\ handle = "dropped"
    /\ SessionState = "Closed"
    /\ Len(wire) = 1
    /\ ~wire[1].ok

WriterActive == wpc \in {"recv", "sending"}

\* C21: the end of the reader does not stop the writer.  The step in which the reader
\* takes a close frame or the end of the stream leaves the writer, its channel and
\* the message it holds as they were; in a Closed session the writer is active until
\* the handle is dropped, takes what waits in the channel and attempts what it took.
C21_WriterOutlivesReader ==
    /\ [][TakesLast => UNCHANGED <<wpc, cur, queue, rxOpen, wire, enq, handle>>]_vars
    /\ [](SessionState = "Closed" =>
              /\ handle = "live" => WriterActive /\ rxOpen
              /\ (wpc = "recv" /\ queue # <<>>) => ENABLED WriterRecv
              /\ wpc = "sending" => ENABLED WriterSend(TRUE) /\ ENABLED WriterSend(FALSE))

\* in a session closed by a close frame the writer is active, and the one message
\* sent was taken by it and handed to the connection
C21_Witness ==
    /\ SessionState = "Closed"
    /\ nread = 1
    /\ IsClose(arrived[1])
    /\ Len(log) = 2
    /\ Len(enq) = 1
    /\ Len(wire) = 1
    /\ wire[1].frame = enq[1]
    /\ WriterActive

IsReceiveError(f) == f.kind = "Error"
IsStreamEnd(f) == f.kind = "End"
\* the stream ended and no close frame came before the end
UnexpectedClosure(i) ==
    IsStreamEnd(arrived[i]) /\ \A j \in 1..(i - 1) : ~IsClose(arrived[j])

\* C22: every failure after the handshake succeeded becomes a log line: on_log was
\* invoked for each failed transmission, for each receive error the reader took from
\* the stream, and for the end of a stream that no close frame preceded.
C22_FailuresLogged ==
    /\ Len(WriterEntries) >= Len(FailedFrames)
    /\ \A i \in 1..nread : IsReceiveError(arrived[i]) => EntriesFor(i) # <<>>
    /\ \A i \in 1..nread : UnexpectedClosure(i) => EntriesFor(i) # <<>>

\* the id of a serialized message
IdOf(text) == The(ValuesAt(text.val, "id")).n
\* the ids of the messages constructed and not yet sent, and of those enqueued
HeldIds == {hand[c].msg.id : c \in {d \in Callers : hand[d].full}}
EnqueuedIds == {IdOf(enq[i]) : i \in 1..Len(enq)}
NumHeld == Cardinality({c \in Callers : hand[c].full})
\* the step in which the given caller constructs a message
Constructs(c) == ~hand[c].full /\ hand'[c].full

\* C23: ids come from one counter for the whole process.  It starts at 0; a
\* construction, by whichever caller and at whatever moment of whichever session,
\* gets the value of the counter and raises it by one; no other step changes it, so
\* that it is never reset; and no two messages constructed have the same id.
C23_IdsUnique ==
    /\ [](/\ \A c \in Callers : hand[c].full => hand[c].msg.id < nextId
          /\ \A i \in 1..Len(enq) : IdOf(enq[i]) < nextId
          /\ Cardinality(HeldIds) = NumHeld
          /\ Cardinality(EnqueuedIds) = Len(enq)
          /\ HeldIds \cap EnqueuedIds = {})
    /\ [][/\ \A c \in Callers :
                Constructs(c) => hand'[c].msg.id = nextId /\ nextId' = nextId + 1
          /\ (\A c \in Callers : ~Constructs(c)) => nextId' = nextId
          /\ (nextId = 0 /\ nextId' # 0) =>
                \E c \in Callers : Constructs(c) /\ hand'[c].msg.id = 0]_vars

\* the two callers constructed one after the other, and three messages have three ids
C23_Witness ==
    /\ nextId = 3
    /\ Len(enq) = 1
    /\ IdOf(enq[1]) = 1
    /\ hand["ui"].full /\ hand["ui"].msg.id = 0
    /\ hand["bg"].full /\ hand["bg"].msg.id = 2

EnqIds == [i \in 1..Len(enq) |-> IdOf(enq[i])]
Increasing(ids) == \A i, j \in 1..Len(ids) : i < j => ids[i] < ids[j]
\* the step in which the given caller calls send
Sends(c) == hand[c].full /\ ~hand'[c].full

Attempts(i) == Cardinality({k \in 1..Len(wire) : wire[k].frame = enq[i]})

\* C25: no message is retried or duplicated.  Each message enqueued was handed to the
\* connection at most once, there are no more frames handed over than messages
\* enqueued, and the step in which a transmission fails lets go of the message: the
\* writer holds nothing after it and nothing went back to the channel.
C25_NoRetry ==
    /\ [](/\ Len(wire) <= Len(enq)
          /\ \A i \in 1..Len(enq) : Attempts(i) <= 1)
    /\ [][TransmissionFails => cur' = <<>> /\ queue' = queue /\ Len(wire') = Len(wire) + 1]_vars

\* the only message sent failed in transmission, and the writer waits with nothing
\* in its hands and an empty channel
C25_Witness ==
    /\ Len(enq) = 1
    /\ Len(wire) = 1
    /\ ~wire[1].ok
    /\ wpc = "recv"
    /\ cur = <<>>
    /\ queue = <<>>
    /\ Attempts(1) = 1

InEnq(text) == \E i \in 1..Len(enq) : enq[i] = text
TagOf(text) == The(ValuesAt(text.val, "type")).s[1]
LoginTags == {"login_request", "login_password"}
\* the step in which the handshake succeeds
Opens == SessionState = "Connecting" /\ SessionState' = "Open"

\* C26: the session originates no frame.  Every frame handed to the connection, the
\* message the writer holds and every message in the channel is the serialization of
\* a message passed to send; the handshake puts nothing in the channel and nothing on
\* the wire, the password of connect included; so a login frame is on the wire only
\* if the caller sent it.
C26_NoOwnFrames ==
    /\ [](/\ \A k \in 1..Len(wire) : InEnq(wire[k].frame)
          /\ \A k \in 1..Len(queue) : InEnq(queue[k])
          /\ \A k \in 1..Len(cur) : InEnq(cur[k])
          /\ \A k \in 1..Len(wire) : TagOf(wire[k].frame) \in LoginTags => InEnq(wire[k].frame))
    /\ [][Opens => queue' = queue /\ cur' = cur /\ wire' = wire]_vars

\* the session is open and the one frame on the wire is the command the caller sent
C26_Witness ==
    /\ SessionState = "Open"
    /\ Len(wire) = 1
    /\ Len(enq) = 1
    /\ wire[1].frame = enq[1]
    /\ TagOf(wire[1].frame) = "command"

ReaderLeaves == cpc = "reading" /\ cpc' # "reading"
\* the next frame is one whose delivery formats no message: a print frame, or a frame
\* that is not text
NextIsPlain == inbound # <<>> /\ (Head(inbound).kind # "Text" \/ ParsesAsPrint(Head(inbound)))

\* C27: nothing cancels a session.  The reader leaves its loop only in the step that
\* takes a close frame or the end of the stream; no step of the caller or of the
\* writer touches the reader or the frames that wait for it; and while it is in its
\* loop, the handle dropped and the writer ended, the reader can take the next frame
\* (a print frame or a frame that is not text).
C27_NoCancellation ==
    /\ [][/\ ReaderLeaves => TakesLast
          /\ (handle' # handle \/ wpc' # wpc) =>
                (cpc = "reading" => UNCHANGED <<cpc, inbound, nread>>)]_vars
    /\ []((cpc = "reading" /\ handle = "dropped" /\ wpc = "done" /\ NextIsPlain)
              => ENABLED ReaderStep)

\* the handle is dropped and the writer has ended; the reader has delivered a print
\* frame and can take the frame that waits
C27_Witness ==
    /\ handle = "dropped"
    /\ wpc = "done"
    /\ cpc = "reading"
    /\ nread = 1
    /\ ParsesAsPrint(arrived[1])
    /\ Len(ReaderEntries) = 1
    /\ NextIsPlain
    /\ ENABLED ReaderStep

WriterMoves == WriterActive /\ wpc' # wpc
ReaderMoves == nread' # nread

\* C28: in an Open session neither path waits for the other.  The writer can take a
\* waiting message, and finish a transmission, whether or not frames wait for the
\* reader; the reader can take a waiting frame (a print frame or a frame that is not
\* text) while the writer waits on an empty channel; and a step of one path changes
\* nothing of the other.
C28_PathsIndependent ==
    /\ [](SessionState = "Open" =>
              /\ (wpc = "recv" /\ queue # <<>>) => ENABLED WriterRecv
              /\ wpc = "sending" => ENABLED WriterSend(TRUE)
              /\ (wpc = "recv" /\ queue = <<>> /\ NextIsPlain) => ENABLED ReaderStep)
    /\ [][/\ WriterMoves => UNCHANGED <<cpc, inbound, arrived, nread>>
          /\ ReaderMoves => UNCHANGED <<wpc, cur, queue, rxOpen, wire, enq>>]_vars

\* an Open session in which no frame waits for the reader and a message waits for
\* the writer, which can take it
C28_Witness ==
    /\ SessionState = "Open"
    /\ inbound = <<>>
    /\ nread = 1
    /\ wpc = "recv"
    /\ queue # <<>>
    /\ ENABLED WriterRecv

BeforeOpen == cpc \in {"none", "handshake", "panicked"}

\* C29: before the handshake succeeds no frame is handed to the connection and no
\* inbound frame is taken or delivered.  What is sent while the session is Connecting
\* waits in the channel, in the order sent; the step that opens the session leaves
\* the channel as it is; and from then on what was handed over, what the writer
\* holds and what waits are together everything sent, in the order sent, so that the
\* early messages go out first and none is dropped.
C29_QueuedUntilOpen ==
    /\ [](/\ BeforeOpen => wire = <<>> /\ cur = <<>> /\ nread = 0 /\ ReaderEntries = <<>>
          /\ SessionState = "Connecting" => queue = enq
          /\ SessionState \in {"Open", "Closed"} => WireFrames \o cur \o queue = enq)
    /\ [][Opens => queue' = enq /\ wire' = <<>> /\ wpc' = "recv"]_vars

\* two messages were sent to a session still Connecting and wait in the order sent
C29_Witness ==
    /\ SessionState = "Connecting"
    /\ Len(enq) = 2
    /\ queue = enq
    /\ EnqIds = <<0, 1>>
    /\ wire = <<>>
    /\ log = <<>>

\* the failure notices that are not about a frame handed to the connection
LossNotices ==
    SelectSeq(log, LAMBDA e : e.src # "writer" /\ e.text[1] = "Failed to send message: ")
NumSent == nextId - NumHeld

\* C30: no message is lost silently.  Once the channel has no consumer and will never
\* have one (the handshake failed, or the writer ended), nothing more can happen to
\* a message sent; by then every message passed to send was handed to the connection
\* or an on_log invocation reported a failure for it.
C30_NoSilentLoss ==
    ConsumerGone => NumSent <= Len(wire) + Len(LossNotices)


\* C31: when the handle is dropped the writer first hands over every message that
\* waits, in order, and ends only then: while messages wait it can take the next and
\* cannot end; once it has ended everything sent was handed over, in the order sent;
\* and after that nothing goes on the wire.
C31_DrainThenStop ==
    /\ [](/\ (handle = "dropped" /\ wpc = "recv" /\ queue # <<>>) => ENABLED WriterRecv
          /\ wpc = "done" => handle = "dropped" /\ WireFrames = enq)
    /\ [][/\ (WriterStops /\ ~TransmissionFails) => queue = <<>> /\ WireFrames = enq
          /\ wpc = "done" => wire' = wire /\ wpc' = "done"]_vars

\* two messages were sent, the handle was dropped, and the writer has ended with both
\* handed over in the order sent
C31_Witness ==
    /\ handle = "dropped"
    /\ wpc = "done"
    /\ Len(enq) = 2
    /\ WireFrames = enq
    /\ EnqIds = <<0, 1>>

ConnectedNotice ==
    [src |-> "connect", frame |-> 0, text |-> <<"Connected to odamex server!", "\n">>,
     level |-> [some |-> FALSE, level |-> ""]]
ConnectEntries == SelectSeq(log, LAMBDA e : e.src = "connect")

\* C32: on a successful handshake on_log is invoked exactly once with the connected
\* notice and None, before every invocation for an inbound frame and before every
\* report of the writer: in a session that got past the handshake the notice is the
\* first entry of the log and the only one of its kind, and there is none before.
C32_ConnectedFirst ==
    /\ [](/\ SessionState \in {"Open", "Closed"} =>
                log # <<>> /\ log[1] = ConnectedNotice /\ ConnectEntries = <<ConnectedNotice>>
          /\ BeforeOpen => ConnectEntries = <<>> /\ ReaderEntries = <<>> /\ WriterEntries = <<>>)
    /\ [][Opens => log' = Append(log, ConnectedNotice)]_vars

\* the notice stands before the report of a failed transmission and the delivery of
\* a print frame
C32_Witness ==
    /\ Len(log) = 3
    /\ log[1] = ConnectedNotice
    /\ Len(WriterEntries) = 1
    /\ Len(ReaderEntries) = 1
    /\ ParsesAsPrint(arrived[1])

SendEntries == SelectSeq(log, LAMBDA e : e.src = "send")

\* C33: while the handle exists and the handshake has succeeded the consumer of the
\* channel does not end: in the Open and in the Closed state, the handle live, the
\* writer is active and the channel has its receiver, whatever failed before; send
\* has reported no failure; a report of send exists only after a failed handshake.
C33_ConsumerLives ==
    /\ (handle = "live" /\ SessionState \in {"Open", "Closed"}) =>
           WriterActive /\ rxOpen /\ ~ConsumerGone
    /\ SessionState \in {"Open", "Closed"} => SendEntries = <<>>
    /\ SendEntries # <<>> => HandshakeFailed

\* in a Closed session a transmission has failed, a message was sent since and was
\* accepted, and send has reported nothing
C33_Witness ==
    /\ SessionState = "Closed"
    /\ handle = "live"
    /\ Len(wire) = 1
    /\ ~wire[1].ok
    /\ Len(enq) = 2
    /\ Len(queue) + Len(cur) = 1
    /\ SendEntries = <<>>

(***************************************************************************)
(* The configuration document, said of the document itself.                *)
(***************************************************************************)
LevelKeys ==
    {"pickup", "obituary", "high", "chat", "teamchat", "serverchat", "warning", "error"}
Colours == {HexRed, <<"r", "e", "d">>, LightPrefix \o <<"r", "e", "d">>, DefaultName}
RequiredKeys == {"name", "host", "port", "password", "protoversion"}
ItemsAt(doc, key, kind) ==
    IF \E i \in 1..Len(doc.kv) : doc.kv[i].k = key /\ doc.kv[i].v.t = kind
    THEN doc.kv[CHOOSE i \in 1..Len(doc.kv) : doc.kv[i].k = key].v.kv
    ELSE <<>>
ServerEntries(doc) == ItemsAt(doc, "servers", "arr")
ColourPairs(doc) == ItemsAt(doc, "logcolors", "tab")
LacksField(entry) ==
    \E key \in RequiredKeys : \A i \in 1..Len(entry.kv) : entry.kv[i].k # key
ServerLacksField(doc) ==
    \E i \in 1..Len(ServerEntries(doc)) : LacksField(ServerEntries(doc)[i])
BadColourKey(doc) ==
    \E i \in 1..Len(ColourPairs(doc)) : ColourPairs(doc)[i].k \notin LevelKeys
BadColourValue(doc) ==
    \E i \in 1..Len(ColourPairs(doc)) :
        ~(ColourPairs(doc)[i].v.t = "str" /\ ColourPairs(doc)[i].v.s \in Colours)
Defective(doc) == ServerLacksField(doc) \/ BadColourKey(doc) \/ BadColourValue(doc)
\* Config::load has read the text of an existing configuration file
LoadedText ==
    /\ ppc = "loaded"
    /\ pin.fs.dir /\ pin.fs.exists /\ pin.fs.readable
    /\ pin.fs.text.wf

\* C34: loading a configuration in which a server entry lacks one of name, host, port,
\* password, protoversion, or a log colour key is no print level, or a log colour value
\* is no colour, yields the parse error and no configuration; a load that succeeds
\* yields every server entry and every log colour of the document, none left out or
\* filled in.
C34_DefectiveConfigFails ==
    /\ (LoadedText /\ Defective(pin.fs.text.val)) => pout = Err("ParseError", NoConfig)
    /\ (LoadedText /\ pout.ok) =>
          /\ Len(pout.value.servers) = Len(ServerEntries(pin.fs.text.val))
          /\ Len(pout.value.logcolors) = Len(ColourPairs(pin.fs.text.val))
          /\ ~Defective(pin.fs.text.val)

\* a document of two server entries, the first complete and the second without its
\* password, and one good log colour, was loaded: the parse error, no configuration
C34_Witness ==
    /\ LoadedText
    /\ ServerEntries(pin.fs.text.val) = <<TTab(FullServer), TTab(Without(FullServer, "password"))>>
    /\ ColourPairs(pin.fs.text.val) = <<Pair("error", TStr(HexRed))>>
    /\ pout = Err("ParseError", NoConfig)

\* the endpoint ws://h:p
Endpoint(h, p) == <<"ws://">> \o h \o <<":">> \o FormatUnsigned(p)

\* C35: after any sequence of interface actions the user data of the interface is
\* still the application state that holds the configuration, a main menu on top lists
\* the names of the configured servers, and opening the settings has not failed.
C35_ConfigKept ==
    /\ siv.running => HasAppState(siv)
    /\ TopIs("menu") => HasAppState(siv) /\ Top(siv).items = Names(siv.user_data.config)
    /\ siv.panicked # "settings"

\* C36: every session opened for host h and port p, through connect or through the
\* console layer, has the connection target ws://h:p.
C36_TargetIsAsked ==
    \A i \in 1..Len(opened) : opened[i].target = Endpoint(opened[i].host, opened[i].port)

====
